---- MODULE Spec2Model ----
(***************************************************************************)
(* Model of magicrowspy: the JSON-schema contract generator                *)
(* (utils/schema_generator.py) and the enrichment orchestrator             *)
(* (core/enricher.py).                                                     *)
(*                                                                         *)
(* JSON / Python values are tagged records [t, v]:                         *)
(*   t = "null"  Python None          t = "NA"   pandas pd.NA              *)
(*   t = "str"   v a string           t = "list" v a sequence of values    *)
(*   t = "dict"  v a function from string keys to values                   *)
(* f-strings are modelled as tuples of their literal and interpolated      *)
(* parts.                                                                  *)
(***************************************************************************)
EXTENDS Integers, Sequences, FiniteSets, TLC

(***************************************************************************)
(* Bounds                                                                  *)
(***************************************************************************)
MaxCategories == 2
MaxRows == 2
MaxOutputs == 2

(***************************************************************************)
(* Values                                                                  *)
(***************************************************************************)
None == [t |-> "null", v |-> <<>>]
NA == [t |-> "NA", v |-> <<>>]
Str(s) == [t |-> "str", v |-> s]
List(q) == [t |-> "list", v |-> q]
Dict(f) == [t |-> "dict", v |-> f]

IsDict(x) == x.t = "dict"
IsList(x) == x.t = "list"

\* Python truthiness of a value (None, "", [], {} are falsy)
Truthy(x) ==
    CASE x.t = "null" -> FALSE
      [] x.t = "str" -> x.v # ""
      [] x.t = "list" -> Len(x.v) > 0
      [] x.t = "dict" -> DOMAIN x.v # {}
      [] OTHER -> TRUE

(***************************************************************************)
(* config/models.py                                                        *)
(***************************************************************************)
OutputType == {"text", "category", "number", "json"}
OutputCardinality == {"single", "multiple"}
OutputFormat == {"newColumns", "newRows"}
RunMode == {"preview", "full"}

CategoryNameSet == {"Positive", "Negative"}

\* OutputCategory(name, description)
OutputCategory(n) == [name |-> n, description |-> <<"Description of ", n>>]

RECURSIVE SeqsUpTo(_, _)
SeqsUpTo(S, n) ==
    IF n = 0 THEN {<<>>}
    ELSE LET shorter == SeqsUpTo(S, n - 1)
         IN shorter \cup {Append(q, e) : q \in {s \in shorter : Len(s) = n - 1}, e \in S}

\* Optional[List[OutputCategory]]: isNone distinguishes None from a list
CategoryLists ==
    {[isNone |-> TRUE, list |-> <<>>]} \cup
    {[isNone |-> FALSE, list |-> q] :
        q \in SeqsUpTo({OutputCategory(n) : n \in CategoryNameSet}, MaxCategories)}

OutputNames == {"sentiment", "value", "reasoning"}
PromptOk == "Classify {{ text }}"
PromptBad == "Classify {% if %}"
\* a template that names a context column the table may lack, and one whose
\* rendering reads an attribute of an undefined value
PromptRegion == "Locate {{ region }}"
PromptUndefined == "Classify {{ text.a.b }}"

OutputConfig(n, p, ty, card, cats, incl) ==
    [name |-> n, prompt |-> p, outputType |-> ty, outputCardinality |-> card,
     outputCategories |-> cats, includeReasoning |-> incl]

OutputConfigs ==
    {OutputConfig(n, PromptOk, ty, card, cats, incl) :
        n \in OutputNames, ty \in OutputType, card \in OutputCardinality,
        cats \in CategoryLists, incl \in BOOLEAN}

(***************************************************************************)
(* utils/schema_generator.py : generate_json_schema                        *)
(***************************************************************************)
Raised(e) == [exc |-> e]
IsRaised(r) == "exc" \in DOMAIN r

\* `not output_config.outputCategories`
NoCategories(oc) == oc.outputCategories.isNone \/ Len(oc.outputCategories.list) = 0

EnumNamesReversed(cats) == [i \in 1..Len(cats) |-> cats[Len(cats) + 1 - i].name]

\* [cat.name for cat in output_config.outputCategories]
EnumNames(cats) == [i \in 1..Len(cats) |-> cats[i].name]

\* the base prop_schema chosen by outputType
BasePropSchema(oc) ==
    CASE oc.outputType = "text" ->
            [type |-> "string", description |-> <<"Text output for ", oc.name>>]
      [] oc.outputType = "number" ->
            [type |-> "number", description |-> <<"Numeric output for ", oc.name>>]
      [] oc.outputType = "category" ->
            IF NoCategories(oc)
            THEN Raised("ValueError")
            ELSE [type |-> "string",
                  description |-> <<"Categorical output for ", oc.name>>,
                  enum |-> EnumNames(oc.outputCategories.list)]
      [] oc.outputType = "json" ->
            [type |-> "string",
             description |-> <<"JSON string output for ", oc.name,
                               ". The content should be valid JSON.">>]
      [] OTHER -> Raised("ValueError")

\* the cardinality step: wrap prop_schema in an array definition for MULTIPLE
CardinalitySchema(oc, prop_schema) ==
    IF oc.outputCardinality = "multiple"
    THEN [type |-> "array",
          description |-> <<"List of ", oc.outputType, " values for ", oc.name>>,
          items |-> prop_schema]
    ELSE prop_schema

ReasoningPropSchema ==
    [type |-> "string",
     description |-> "Explanation for why the value was chosen or generated."]

WrappedPropSchemaItemsOnly(oc, original_value_schema) ==
    [type |-> "object",
     description |-> <<"Output value and reasoning for ", oc.name>>,
     properties |-> [value |-> IF "items" \in DOMAIN original_value_schema
                               THEN original_value_schema.items
                               ELSE original_value_schema,
                     reasoning |-> ReasoningPropSchema],
     required |-> <<"value", "reasoning">>,
     additionalProperties |-> FALSE]

\* wrapped_prop_schema
WrappedPropSchema(oc, original_value_schema) ==
    [type |-> "object",
     description |-> <<"Output value and reasoning for ", oc.name>>,
     properties |-> [value |-> original_value_schema,
                     reasoning |-> ReasoningPropSchema],
     required |-> <<"value", "reasoning">>,
     additionalProperties |-> FALSE]

WrapsReasoningSpecFlagOnly(oc, reasoning) == oc.includeReasoning

\* `output_config.includeReasoning and reasoning`
WrapsReasoning(oc, reasoning) == oc.includeReasoning /\ reasoning

SchemaEnvelopeOpen(oc, prop) ==
    [type |-> "object",
     properties |-> (oc.name :> prop),
     required |-> <<>>,
     additionalProperties |-> TRUE]

\* the top-level `schema` dict with its single property filled in
SchemaEnvelope(oc, prop) ==
    [type |-> "object",
     properties |-> (oc.name :> prop),
     required |-> <<oc.name>>,
     additionalProperties |-> FALSE]

generate_json_schema(oc, reasoning) ==
    LET prop_schema == BasePropSchema(oc)
    IN IF IsRaised(prop_schema)
       THEN prop_schema
       ELSE LET value_schema == CardinalitySchema(oc, prop_schema)
            IN SchemaEnvelope(oc,
                  IF WrapsReasoning(oc, reasoning)
                  THEN WrappedPropSchema(oc, value_schema)
                  ELSE value_schema)

(***************************************************************************)
(* core/enricher.py : inputs of a run                                      *)
(***************************************************************************)
MaxTransient == 2

\* OpenAIProviderConfig(integrationName, apiKey)
ProviderConfig(n, k) == [integrationName |-> n, apiKey |-> k]
\* the provider lists an Enricher is constructed with
ProviderLists ==
    {<<ProviderConfig("myOpenAI", "sk-1")>>,
     <<ProviderConfig("myOpenAI", "")>>,
     <<ProviderConfig("other", "sk-2")>>,
     <<ProviderConfig("myOpenAI", ""), ProviderConfig("myOpenAI", "sk-1")>>}

MaxProviders == 3
MaxPieces == 3

\* the profiles a provider list is drawn from
ProviderProfiles ==
    {ProviderConfig(n, k) : n \in {"myOpenAI", "other"}, k \in {"sk-1", "sk-2"}}

RECURSIVE RegisterProvidersFirstWins(_, _)
RegisterProvidersFirstWins(map, providers) ==
    IF providers = <<>> THEN map
    ELSE LET provider_config == Head(providers)
         IN RegisterProvidersFirstWins(
              IF provider_config.integrationName \in DOMAIN map
              THEN map
              ELSE [n \in DOMAIN map \cup {provider_config.integrationName} |->
                       IF n = provider_config.integrationName
                       THEN provider_config ELSE map[n]],
              Tail(providers))

\* lines 75-83: self.providers[provider_config.integrationName] = provider_config
\* for each profile of the list in turn
RECURSIVE RegisterProviders(_, _)
RegisterProviders(map, providers) ==
    IF providers = <<>> THEN map
    ELSE LET provider_config == Head(providers)
             others == DOMAIN map \ {provider_config.integrationName}
         IN RegisterProviders(
              [n \in others \cup {provider_config.integrationName} |->
                  IF n = provider_config.integrationName THEN provider_config ELSE map[n]],
              Tail(providers))

\* Enricher.__init__: self.providers keyed by integrationName, later entries
\* overwrite earlier ones
EnricherInit(providers) == RegisterProviders(<<>>, providers)

\* Enricher.__init__, lines 72-83: ValueError for an empty list, otherwise
\* the providers dict
NewEnricher(provider_list) ==
    IF Len(provider_list) = 0
    THEN Raised("ValueError")
    ELSE [providers |-> EnricherInit(provider_list)]

\* names given to the outputs of a task, by position (unique within a task)
TaskOutputNames == <<"sentiment", "topics", "extra", "more">>

NoCategoryList == [isNone |-> TRUE, list |-> <<>>]
EmptyCategoryList == [isNone |-> FALSE, list |-> <<>>]

\* the output specifications used in enrichment runs: (type, cardinality,
\* categories, includeReasoning)
OutputShapes ==
    {<<"text", "single", NoCategoryList, TRUE>>,
     <<"text", "multiple", NoCategoryList, FALSE>>,
     <<"category", "single", EmptyCategoryList, FALSE>>}

OutputLists ==
    {[k \in 1..Len(q) |->
        OutputConfig(TaskOutputNames[k], PromptOk, q[k][1], q[k][2], q[k][3], q[k][4])] :
        q \in SeqsUpTo(OutputShapes, MaxOutputs)}

DefaultPreviewRowCount == 5

\* (mode, previewRowCount): a full run with the default count, a preview
\* run of the first row, and a preview run with the default count (more than
\* the table has rows)
RunModes ==
    {<<"full", DefaultPreviewRowCount>>, <<"preview", 1>>,
     <<"preview", DefaultPreviewRowCount>>}

\* AIEnrichmentBlockConfig
EnrichmentConfigs ==
    {[integrationName |-> "myOpenAI", mode |-> m[1], previewRowCount |-> m[2],
      outputFormat |-> f, contextColumns |-> <<"text">>, outputs |-> outs] :
        m \in RunModes, f \in OutputFormat, outs \in OutputLists}

\* the input table: columns and the cell of a row (rows are positions 1..n)
InputColumns == <<"id", "text">>

\* contextColumns of a configuration: columns of the table, or also a column
\* the table does not have
ContextColumnLists == {<<"text">>, <<"text", "region">>}
InputCell(row, col) == [t |-> "cell", v |-> <<col, row>>]

\* f"{field}_reasoning"
ReasoningName(field) ==
    CASE field = "sentiment" -> "sentiment_reasoning"
      [] field = "topics" -> "topics_reasoning"
      [] field = "extra" -> "extra_reasoning"
      [] field = "more" -> "more_reasoning"
      [] field = "value" -> "value_reasoning"
      [] field = "reasoning" -> "reasoning_reasoning"

(***************************************************************************)
(* The provider: what the client answers on each successive call          *)
(***************************************************************************)
ApiError(e) == [kind |-> "error", error |-> e, content |-> None]
ApiResponse(c) == [kind |-> "response", error |-> "", content |-> c]

\* message.content: JSON text (by the value it decodes to), text that is
\* not JSON, or an empty string
JsonText(x) == [text |-> "json", json |-> x]
MalformedText == [text |-> "malformed", json |-> None]
EmptyText == [text |-> "empty", json |-> None]

\* the exceptions of the client imported at line 53, and one raised for a
\* rejected request; _call_provider treats them alike (`except Exception`,
\* line 733)
TransientErrors == {"RateLimitError", "APITimeoutError", "APIError"}
RequestErrors == {"BadRequestError"}

\* os.environ.get("OPENAI_API_KEY"): "" when the variable is unset or empty
EnvironKeys == {"", "sk-env"}

ConformingValues(oc) ==
    IF oc.outputCardinality = "multiple"
    THEN {List(<<>>), List(<<Str("A"), Str("B")>>)}
    ELSE {Str("A")}

Explained(x) == Dict([value |-> x, reasoning |-> Str("because")])

\* payloads that satisfy the contract generated for the output
ConformingPayloads(oc, reasoning) ==
    IF oc.includeReasoning /\ reasoning
    THEN {Explained(x) : x \in ConformingValues(oc)}
    ELSE ConformingValues(oc)

\* payloads that violate the contract: a missing or unrequested explanation
\* wrapper, a scalar where a list was requested, a null
NonconformingPayloads(oc, reasoning) ==
    (IF oc.includeReasoning /\ reasoning
     THEN {Str("A")}
     ELSE {Explained(Str("A"))})
    \cup (IF oc.outputCardinality = "multiple"
          THEN {IF oc.includeReasoning /\ reasoning THEN Explained(Str("A")) ELSE Str("A")}
          ELSE {})
    \cup {None}

\* contents the API may answer with: the payload under the output name, the
\* payload at the top level, text that is not JSON, nothing
ResponseContents(oc, reasoning) ==
    {JsonText(Dict(oc.name :> p)) :
        p \in ConformingPayloads(oc, reasoning) \cup NonconformingPayloads(oc, reasoning)}
    \cup {JsonText(p) : p \in ConformingPayloads(oc, reasoning)}
    \cup {MalformedText, EmptyText}

\* the response a retried call finally gets
PreferredValue(oc) ==
    IF oc.outputCardinality = "multiple" THEN List(<<Str("A"), Str("B")>>) ELSE Str("A")

FirstConforming(oc, reasoning) ==
    JsonText(Dict(oc.name :>
        IF oc.includeReasoning /\ reasoning
        THEN Explained(PreferredValue(oc))
        ELSE PreferredValue(oc)))

RECURSIVE Repeat(_, _)
Repeat(x, n) == IF n = 0 THEN <<>> ELSE <<x>> \o Repeat(x, n - 1)

\* what client.chat.completions.create would return or raise on the 1st,
\* 2nd, ... time it is called for one (row, output) pair
ProviderScripts(oc, reasoning) ==
    {<<ApiResponse(c)>> : c \in ResponseContents(oc, reasoning)}
    \cup {<<ApiError(e)>> : e \in RequestErrors}
    \cup {<<ApiError(e), ApiResponse(FirstConforming(oc, reasoning))>> : e \in RequestErrors}
    \cup {<<ApiResponse(c), ApiResponse(FirstConforming(oc, reasoning))>> :
            c \in {MalformedText, EmptyText}}
    \cup {Repeat(ApiError(e), k) \o <<ApiResponse(FirstConforming(oc, reasoning))>> :
            e \in TransientErrors, k \in 1..MaxTransient}
    \cup {Repeat(ApiError(e), MaxTransient + 1) : e \in TransientErrors}
    \cup {Repeat(ApiError(e), MaxTransient + 1)
             \o <<ApiResponse(FirstConforming(oc, reasoning))>> : e \in TransientErrors}

\* the answers used in whole runs: the conforming payload, a bare scalar
\* (which violates the contract of an output with explanation in effect or
\* of cardinality multiple), and the failures (longer scripts are explored
\* in PairSpec)
RunScripts(oc, reasoning) ==
    {<<ApiResponse(FirstConforming(oc, reasoning))>>,
     <<ApiResponse(JsonText(Dict(oc.name :> Str("A"))))>>}
    \cup {<<ApiResponse(MalformedText)>>, <<ApiResponse(EmptyText)>>}
    \cup {<<ApiError(e)>> : e \in RequestErrors \cup TransientErrors}

(***************************************************************************)
(* core/enricher.py : Enricher._render_prompt, Enricher._call_provider     *)
(***************************************************************************)
\* jinja2 Template(template) compiles
TemplateCompiles(template) == template # PromptBad

\* template.render(context) raises UndefinedError
RenderRaises(template) == template = PromptUndefined

\* _render_prompt, lines 592-609: the rendered text, or the template itself
\* when compiling or rendering raised (`except Exception`, lines 606-609)
_render_prompt(template, row) ==
    IF TemplateCompiles(template) /\ ~RenderRaises(template)
    THEN [template |-> template, rendered |-> TRUE, row |-> row]
    ELSE [template |-> template, rendered |-> FALSE, row |-> 0]

\* json.loads(content) followed by the choice of main_data
MainData(parsed_content) ==
    IF IsDict(parsed_content) /\ "value" \in DOMAIN parsed_content.v
    THEN parsed_content
    ELSE IF IsDict(parsed_content) /\ Cardinality(DOMAIN parsed_content.v) = 1
         THEN parsed_content.v[CHOOSE k \in DOMAIN parsed_content.v : TRUE]
         ELSE parsed_content

\* line 640: getattr(provider_conf, "apiKey", None) or
\* os.environ.get("OPENAI_API_KEY")
ApiKey(provider_conf, env_api_key) ==
    IF provider_conf.apiKey # "" THEN provider_conf.apiKey ELSE env_api_key

\* the position of the first usable answer among the first three
\* answers of the script, or the last position tried
RECURSIVE FirstUsable(_, _)
FirstUsable(script, k) ==
    IF k >= Len(script) \/ k >= 3 THEN k
    ELSE IF script[k].kind = "response" /\ script[k].content.text = "json" THEN k
    ELSE FirstUsable(script, k + 1)

\* the single client.chat.completions.create(...) of lines 694-702: what
\* the call returns or raises, and the number of times it was called; no
\* statement of _call_provider calls it again
ChatCompletionsCreate(script) == [answer |-> script[1], requests |-> 1]

_call_provider_retrying(provider_conf, env_api_key, output_name, script) ==
    IF ApiKey(provider_conf, env_api_key) = ""
    THEN [ret |-> None, requests |-> 0]
    ELSE LET n == FirstUsable(script, 1)
             attempt == script[n]
         IN [requests |-> n,
             ret |-> IF attempt.kind = "error" THEN None
                     ELSE IF attempt.content.text = "json"
                          THEN Dict(output_name :> MainData(attempt.content.json))
                          ELSE None]

\* _call_provider, lines 611-743: ret is None or {output_name: main_data};
\* requests is the number of calls of client.chat.completions.create
_call_provider(provider_conf, env_api_key, output_name, script) ==
    IF ApiKey(provider_conf, env_api_key) = ""
    THEN [ret |-> None, requests |-> 0]
    ELSE LET created == ChatCompletionsCreate(script)
             attempt == created.answer
         IN [requests |-> created.requests,
             ret |-> IF attempt.kind = "error" THEN None
                     ELSE IF attempt.content.text = "empty" THEN None
                     ELSE IF attempt.content.text = "malformed" THEN None
                     ELSE Dict(output_name :> MainData(attempt.content.json))]

(***************************************************************************)
(* core/enricher.py : Enricher._enrich_pandas, row records                 *)
(***************************************************************************)
NoRow == [original_index |-> 0, keys |-> <<>>, cells |-> <<>>]

InSeq(q, x) == \E i \in 1..Len(q) : q[i] = x

\* row_result[k] = x on an insertion-ordered dict
SetItem(rr, k, x) ==
    [rr EXCEPT !.keys = IF InSeq(rr.keys, k) THEN @ ELSE Append(@, k),
               !.cells = [c \in DOMAIN rr.cells \cup {k} |->
                             IF c = k THEN x ELSE rr.cells[c]]]

RECURSIVE EmptyRowResultReasoningFirst(_, _, _)
EmptyRowResultReasoningFirst(rr, outputs, reasoning) ==
    IF outputs = <<>> THEN rr
    ELSE LET oc == Head(outputs)
         IN EmptyRowResultReasoningFirst(
              IF oc.includeReasoning /\ reasoning
              THEN SetItem(SetItem(rr, ReasoningName(oc.name), NA), oc.name, NA)
              ELSE SetItem(rr, oc.name, NA),
              Tail(outputs), reasoning)

\* "Create empty results for each output": NA for each field and, when
\* includeReasoning and reasoning, for its reasoning field
RECURSIVE EmptyRowResult(_, _, _)
EmptyRowResult(rr, outputs, reasoning) ==
    IF outputs = <<>> THEN rr
    ELSE LET oc == Head(outputs)
             withField == SetItem(rr, oc.name, NA)
         IN EmptyRowResult(
              IF oc.includeReasoning /\ reasoning
              THEN SetItem(withField, ReasoningName(oc.name), NA)
              ELSE withField,
              Tail(outputs), reasoning)

\* dict.get(key, default)
Get(d, k, default) == IF k \in DOMAIN d.v THEN d.v[k] ELSE default

PandasStoreResultFallbackReasoning(rr, oc, reasoning, result) ==
    LET field == oc.name
    IN IF Truthy(result) /\ field \in DOMAIN result.v
       THEN LET provider_data == result.v[field]
            IN IF oc.includeReasoning /\ reasoning
               THEN IF IsDict(provider_data) /\ "value" \in DOMAIN provider_data.v
                    THEN SetItem(SetItem(rr, field, Get(provider_data, "value", NA)),
                                 ReasoningName(field), Get(provider_data, "reasoning", NA))
                    ELSE SetItem(SetItem(rr, field, NA), ReasoningName(field), NA)
               ELSE SetItem(rr, field, provider_data)
       ELSE IF oc.includeReasoning /\ reasoning
            THEN SetItem(SetItem(rr, field, NA), ReasoningName(field),
                         Str("determined by analyzing the available data"))
            ELSE SetItem(rr, field, NA)

PandasStoreResultKeepingPayload(rr, oc, reasoning, result) ==
    LET field == oc.name
    IN IF Truthy(result) /\ field \in DOMAIN result.v
       THEN LET provider_data == result.v[field]
            IN IF oc.includeReasoning /\ reasoning
               THEN IF IsDict(provider_data) /\ "value" \in DOMAIN provider_data.v
                    THEN SetItem(SetItem(rr, field, Get(provider_data, "value", NA)),
                                 ReasoningName(field), Get(provider_data, "reasoning", NA))
                    ELSE SetItem(SetItem(rr, field, provider_data), ReasoningName(field), NA)
               ELSE SetItem(rr, field, provider_data)
       ELSE IF oc.includeReasoning /\ reasoning
            THEN SetItem(SetItem(rr, field, NA), ReasoningName(field), NA)
            ELSE SetItem(rr, field, NA)

\* "Process the actual result from the provider": the row record after the
\* result of one output is stored
PandasStoreResult(rr, oc, reasoning, result) ==
    LET field == oc.name
    IN IF Truthy(result) /\ field \in DOMAIN result.v
       THEN LET provider_data == result.v[field]
            IN IF oc.includeReasoning /\ reasoning
               THEN IF IsDict(provider_data) /\ "value" \in DOMAIN provider_data.v
                    THEN SetItem(SetItem(rr, field, Get(provider_data, "value", NA)),
                                 ReasoningName(field), Get(provider_data, "reasoning", NA))
                    ELSE SetItem(SetItem(rr, field, NA), ReasoningName(field), NA)
               ELSE SetItem(rr, field, provider_data)
       ELSE IF oc.includeReasoning /\ reasoning
            THEN SetItem(SetItem(rr, field, NA), ReasoningName(field), NA)
            ELSE SetItem(rr, field, NA)

Min(a, b) == IF a < b THEN a ELSE b

PandasHeadIgnoringPreview(mode, previewRowCount, n) == n

\* len(df) after `df = df.head(preview_row_count)` in preview mode
PandasHead(mode, previewRowCount, n) ==
    IF mode = "preview" THEN Min(previewRowCount, n) ELSE n

\* results_df.reindex(df.index): the record whose original_index is idx, or
\* a row of missing values
Reindexed(records, columns, idx) ==
    IF \E k \in 1..Len(records) : records[k].original_index = idx
    THEN LET rec == records[CHOOSE k \in 1..Len(records) : records[k].original_index = idx]
         IN [c \in {columns[m] : m \in 1..Len(columns)} |-> rec.cells[c]]
    ELSE [c \in {columns[m] : m \in 1..Len(columns)} |-> NA]

\* lines 281-300: DataFrame(results_dict_list).set_index('original_index'),
\* reindex on df.index and concat([df, results_df], axis=1)
PandasAssemble(df_len, records) ==
    IF Len(records) = 0
    THEN [kind |-> "raised", exc |-> "KeyError"]
    ELSE LET result_columns == records[1].keys
         IN [kind |-> "table",
             columns |-> InputColumns \o result_columns,
             rows |-> [k \in 1..df_len |->
                         [index |-> k,
                          cells |-> [c \in {InputColumns[m] : m \in 1..Len(InputColumns)} |->
                                        InputCell(k, c)]
                                    @@ Reindexed(records, result_columns, k)]]]

(***************************************************************************)
(* core/provider_handler.py : ProviderHandler.parse_response               *)
(* A Python str is modelled as the sequence of its characters; a log or    *)
(* error message is a sequence of one symbol.                              *)
(***************************************************************************)
TextPieces ==
    {<<"a">>, <<"1">>, <<"1", ".">>, <<"*", "*">>, <<"-">>, <<" ">>, <<"\n">>,
     <<"U+00A0">>, <<"U+0661", ".">>}

RECURSIVE Concat(_)
Concat(q) == IF q = <<>> THEN <<>> ELSE Head(q) \o Concat(Tail(q))

\* message contents: the texts spelled with at most MaxPieces pieces
Texts == {Concat(q) : q \in SeqsUpTo(TextPieces, MaxPieces)}

\* A character outside ASCII, or an ASCII control character TLA+ has no
\* escape for, is written as one symbol naming its code point.
\* The whitespace of JSON (json.loads) and the ASCII digits of a JSON number
JsonWhitespace == {" ", "\n", "\t", "\r"}
JsonDigits == {"0", "1", "2", "3", "4", "5", "6", "7", "8", "9"}

\* the other characters str.strip() removes and \s matches in a str pattern
UnicodeWhitespace ==
    {"U+000B", "U+000C", "U+001C", "U+001D", "U+001E", "U+001F", "U+0085",
     "U+00A0", "U+1680", "U+2000", "U+2001", "U+2002", "U+2003", "U+2004",
     "U+2005", "U+2006", "U+2007", "U+2008", "U+2009", "U+200A", "U+2028",
     "U+2029", "U+202F", "U+205F", "U+3000"}

Whitespace == JsonWhitespace \cup UnicodeWhitespace

\* the other characters \d matches in a str pattern compiled without
\* re.ASCII: the decimal digits (category Nd) of every script in the Unicode
\* 14 tables of CPython 3.11, ten per row
UnicodeDigits ==
    {"U+0660", "U+0661", "U+0662", "U+0663", "U+0664", "U+0665", "U+0666", "U+0667", "U+0668", "U+0669",
     "U+06F0", "U+06F1", "U+06F2", "U+06F3", "U+06F4", "U+06F5", "U+06F6", "U+06F7", "U+06F8", "U+06F9",
     "U+07C0", "U+07C1", "U+07C2", "U+07C3", "U+07C4", "U+07C5", "U+07C6", "U+07C7", "U+07C8", "U+07C9",
     "U+0966", "U+0967", "U+0968", "U+0969", "U+096A", "U+096B", "U+096C", "U+096D", "U+096E", "U+096F",
     "U+09E6", "U+09E7", "U+09E8", "U+09E9", "U+09EA", "U+09EB", "U+09EC", "U+09ED", "U+09EE", "U+09EF",
     "U+0A66", "U+0A67", "U+0A68", "U+0A69", "U+0A6A", "U+0A6B", "U+0A6C", "U+0A6D", "U+0A6E", "U+0A6F",
     "U+0AE6", "U+0AE7", "U+0AE8", "U+0AE9", "U+0AEA", "U+0AEB", "U+0AEC", "U+0AED", "U+0AEE", "U+0AEF",
     "U+0B66", "U+0B67", "U+0B68", "U+0B69", "U+0B6A", "U+0B6B", "U+0B6C", "U+0B6D", "U+0B6E", "U+0B6F",
     "U+0BE6", "U+0BE7", "U+0BE8", "U+0BE9", "U+0BEA", "U+0BEB", "U+0BEC", "U+0BED", "U+0BEE", "U+0BEF",
     "U+0C66", "U+0C67", "U+0C68", "U+0C69", "U+0C6A", "U+0C6B", "U+0C6C", "U+0C6D", "U+0C6E", "U+0C6F",
     "U+0CE6", "U+0CE7", "U+0CE8", "U+0CE9", "U+0CEA", "U+0CEB", "U+0CEC", "U+0CED", "U+0CEE", "U+0CEF",
     "U+0D66", "U+0D67", "U+0D68", "U+0D69", "U+0D6A", "U+0D6B", "U+0D6C", "U+0D6D", "U+0D6E", "U+0D6F",
     "U+0DE6", "U+0DE7", "U+0DE8", "U+0DE9", "U+0DEA", "U+0DEB", "U+0DEC", "U+0DED", "U+0DEE", "U+0DEF",
     "U+0E50", "U+0E51", "U+0E52", "U+0E53", "U+0E54", "U+0E55", "U+0E56", "U+0E57", "U+0E58", "U+0E59",
     "U+0ED0", "U+0ED1", "U+0ED2", "U+0ED3", "U+0ED4", "U+0ED5", "U+0ED6", "U+0ED7", "U+0ED8", "U+0ED9",
     "U+0F20", "U+0F21", "U+0F22", "U+0F23", "U+0F24", "U+0F25", "U+0F26", "U+0F27", "U+0F28", "U+0F29",
     "U+1040", "U+1041", "U+1042", "U+1043", "U+1044", "U+1045", "U+1046", "U+1047", "U+1048", "U+1049",
     "U+1090", "U+1091", "U+1092", "U+1093", "U+1094", "U+1095", "U+1096", "U+1097", "U+1098", "U+1099",
     "U+17E0", "U+17E1", "U+17E2", "U+17E3", "U+17E4", "U+17E5", "U+17E6", "U+17E7", "U+17E8", "U+17E9",
     "U+1810", "U+1811", "U+1812", "U+1813", "U+1814", "U+1815", "U+1816", "U+1817", "U+1818", "U+1819",
     "U+1946", "U+1947", "U+1948", "U+1949", "U+194A", "U+194B", "U+194C", "U+194D", "U+194E", "U+194F",
     "U+19D0", "U+19D1", "U+19D2", "U+19D3", "U+19D4", "U+19D5", "U+19D6", "U+19D7", "U+19D8", "U+19D9",
     "U+1A80", "U+1A81", "U+1A82", "U+1A83", "U+1A84", "U+1A85", "U+1A86", "U+1A87", "U+1A88", "U+1A89",
     "U+1A90", "U+1A91", "U+1A92", "U+1A93", "U+1A94", "U+1A95", "U+1A96", "U+1A97", "U+1A98", "U+1A99",
     "U+1B50", "U+1B51", "U+1B52", "U+1B53", "U+1B54", "U+1B55", "U+1B56", "U+1B57", "U+1B58", "U+1B59",
     "U+1BB0", "U+1BB1", "U+1BB2", "U+1BB3", "U+1BB4", "U+1BB5", "U+1BB6", "U+1BB7", "U+1BB8", "U+1BB9",
     "U+1C40", "U+1C41", "U+1C42", "U+1C43", "U+1C44", "U+1C45", "U+1C46", "U+1C47", "U+1C48", "U+1C49",
     "U+1C50", "U+1C51", "U+1C52", "U+1C53", "U+1C54", "U+1C55", "U+1C56", "U+1C57", "U+1C58", "U+1C59",
     "U+A620", "U+A621", "U+A622", "U+A623", "U+A624", "U+A625", "U+A626", "U+A627", "U+A628", "U+A629",
     "U+A8D0", "U+A8D1", "U+A8D2", "U+A8D3", "U+A8D4", "U+A8D5", "U+A8D6", "U+A8D7", "U+A8D8", "U+A8D9",
     "U+A900", "U+A901", "U+A902", "U+A903", "U+A904", "U+A905", "U+A906", "U+A907", "U+A908", "U+A909",
     "U+A9D0", "U+A9D1", "U+A9D2", "U+A9D3", "U+A9D4", "U+A9D5", "U+A9D6", "U+A9D7", "U+A9D8", "U+A9D9",
     "U+A9F0", "U+A9F1", "U+A9F2", "U+A9F3", "U+A9F4", "U+A9F5", "U+A9F6", "U+A9F7", "U+A9F8", "U+A9F9",
     "U+AA50", "U+AA51", "U+AA52", "U+AA53", "U+AA54", "U+AA55", "U+AA56", "U+AA57", "U+AA58", "U+AA59",
     "U+ABF0", "U+ABF1", "U+ABF2", "U+ABF3", "U+ABF4", "U+ABF5", "U+ABF6", "U+ABF7", "U+ABF8", "U+ABF9",
     "U+FF10", "U+FF11", "U+FF12", "U+FF13", "U+FF14", "U+FF15", "U+FF16", "U+FF17", "U+FF18", "U+FF19",
     "U+104A0", "U+104A1", "U+104A2", "U+104A3", "U+104A4", "U+104A5", "U+104A6", "U+104A7", "U+104A8", "U+104A9",
     "U+10D30", "U+10D31", "U+10D32", "U+10D33", "U+10D34", "U+10D35", "U+10D36", "U+10D37", "U+10D38", "U+10D39",
     "U+11066", "U+11067", "U+11068", "U+11069", "U+1106A", "U+1106B", "U+1106C", "U+1106D", "U+1106E", "U+1106F",
     "U+110F0", "U+110F1", "U+110F2", "U+110F3", "U+110F4", "U+110F5", "U+110F6", "U+110F7", "U+110F8", "U+110F9",
     "U+11136", "U+11137", "U+11138", "U+11139", "U+1113A", "U+1113B", "U+1113C", "U+1113D", "U+1113E", "U+1113F",
     "U+111D0", "U+111D1", "U+111D2", "U+111D3", "U+111D4", "U+111D5", "U+111D6", "U+111D7", "U+111D8", "U+111D9",
     "U+112F0", "U+112F1", "U+112F2", "U+112F3", "U+112F4", "U+112F5", "U+112F6", "U+112F7", "U+112F8", "U+112F9",
     "U+11450", "U+11451", "U+11452", "U+11453", "U+11454", "U+11455", "U+11456", "U+11457", "U+11458", "U+11459",
     "U+114D0", "U+114D1", "U+114D2", "U+114D3", "U+114D4", "U+114D5", "U+114D6", "U+114D7", "U+114D8", "U+114D9",
     "U+11650", "U+11651", "U+11652", "U+11653", "U+11654", "U+11655", "U+11656", "U+11657", "U+11658", "U+11659",
     "U+116C0", "U+116C1", "U+116C2", "U+116C3", "U+116C4", "U+116C5", "U+116C6", "U+116C7", "U+116C8", "U+116C9",
     "U+11730", "U+11731", "U+11732", "U+11733", "U+11734", "U+11735", "U+11736", "U+11737", "U+11738", "U+11739",
     "U+118E0", "U+118E1", "U+118E2", "U+118E3", "U+118E4", "U+118E5", "U+118E6", "U+118E7", "U+118E8", "U+118E9",
     "U+11950", "U+11951", "U+11952", "U+11953", "U+11954", "U+11955", "U+11956", "U+11957", "U+11958", "U+11959",
     "U+11C50", "U+11C51", "U+11C52", "U+11C53", "U+11C54", "U+11C55", "U+11C56", "U+11C57", "U+11C58", "U+11C59",
     "U+11D50", "U+11D51", "U+11D52", "U+11D53", "U+11D54", "U+11D55", "U+11D56", "U+11D57", "U+11D58", "U+11D59",
     "U+11DA0", "U+11DA1", "U+11DA2", "U+11DA3", "U+11DA4", "U+11DA5", "U+11DA6", "U+11DA7", "U+11DA8", "U+11DA9",
     "U+16A60", "U+16A61", "U+16A62", "U+16A63", "U+16A64", "U+16A65", "U+16A66", "U+16A67", "U+16A68", "U+16A69",
     "U+16AC0", "U+16AC1", "U+16AC2", "U+16AC3", "U+16AC4", "U+16AC5", "U+16AC6", "U+16AC7", "U+16AC8", "U+16AC9",
     "U+16B50", "U+16B51", "U+16B52", "U+16B53", "U+16B54", "U+16B55", "U+16B56", "U+16B57", "U+16B58", "U+16B59",
     "U+1D7CE", "U+1D7CF", "U+1D7D0", "U+1D7D1", "U+1D7D2", "U+1D7D3", "U+1D7D4", "U+1D7D5", "U+1D7D6", "U+1D7D7",
     "U+1D7D8", "U+1D7D9", "U+1D7DA", "U+1D7DB", "U+1D7DC", "U+1D7DD", "U+1D7DE", "U+1D7DF", "U+1D7E0", "U+1D7E1",
     "U+1D7E2", "U+1D7E3", "U+1D7E4", "U+1D7E5", "U+1D7E6", "U+1D7E7", "U+1D7E8", "U+1D7E9", "U+1D7EA", "U+1D7EB",
     "U+1D7EC", "U+1D7ED", "U+1D7EE", "U+1D7EF", "U+1D7F0", "U+1D7F1", "U+1D7F2", "U+1D7F3", "U+1D7F4", "U+1D7F5",
     "U+1D7F6", "U+1D7F7", "U+1D7F8", "U+1D7F9", "U+1D7FA", "U+1D7FB", "U+1D7FC", "U+1D7FD", "U+1D7FE", "U+1D7FF",
     "U+1E140", "U+1E141", "U+1E142", "U+1E143", "U+1E144", "U+1E145", "U+1E146", "U+1E147", "U+1E148", "U+1E149",
     "U+1E2F0", "U+1E2F1", "U+1E2F2", "U+1E2F3", "U+1E2F4", "U+1E2F5", "U+1E2F6", "U+1E2F7", "U+1E2F8", "U+1E2F9",
     "U+1E950", "U+1E951", "U+1E952", "U+1E953", "U+1E954", "U+1E955", "U+1E956", "U+1E957", "U+1E958", "U+1E959",
     "U+1FBF0", "U+1FBF1", "U+1FBF2", "U+1FBF3", "U+1FBF4", "U+1FBF5", "U+1FBF6", "U+1FBF7", "U+1FBF8", "U+1FBF9"}

Digits == JsonDigits \cup UnicodeDigits
\* the bullet character U+2022 is written as one symbol
Bullet == "U+2022"
BulletChars == {Bullet, "*", "-"}
\* the backtick U+0060 is written as one symbol
Backtick == "U+0060"
Fence == <<Backtick, Backtick, Backtick>>

\* str.strip()
RECURSIVE LStrip(_)
LStrip(s) == IF s # <<>> /\ Head(s) \in Whitespace THEN LStrip(Tail(s)) ELSE s

RECURSIVE RStrip(_)
RStrip(s) ==
    IF s # <<>> /\ s[Len(s)] \in Whitespace THEN RStrip(SubSeq(s, 1, Len(s) - 1)) ELSE s

Strip(s) == RStrip(LStrip(s))

\* sub in s
Contains(sub, s) ==
    \E i \in 0..(Len(s) - Len(sub)) : SubSeq(s, i + 1, i + Len(sub)) = sub

StartsWith(s, prefix) == Len(s) >= Len(prefix) /\ SubSeq(s, 1, Len(prefix)) = prefix
EndsWith(s, suffix) ==
    Len(s) >= Len(suffix) /\ SubSeq(s, Len(s) - Len(suffix) + 1, Len(s)) = suffix

\* first position at or after p whose character is not in the set S
\* (Len(s) + 1 when there is none): the end of a greedy run
RECURSIVE RunEnd(_, _, _)
RunEnd(s, p, S) == IF p <= Len(s) /\ s[p] \in S THEN RunEnd(s, p + 1, S) ELSE p

\* first position at or after p whose character is "\n" (Len(s) + 1 when
\* there is none)
RECURSIVE LineEnd(_, _)
LineEnd(s, p) == IF p <= Len(s) /\ s[p] # "\n" THEN LineEnd(s, p + 1) ELSE p

\* r'\*\*\s*(?:\n|$)' matched at position e: the position after the match, or
\* 0 when it does not match
BoldCloseEnd(s, e) ==
    IF ~(e + 1 <= Len(s) /\ s[e] = "*" /\ s[e + 1] = "*") THEN 0
    ELSE LET q == RunEnd(s, e + 2, Whitespace)
             newlines == {k \in (e + 2)..(q - 1) : s[k] = "\n"}
         IN IF q = Len(s) + 1 THEN q
            ELSE IF newlines # {}
            THEN (CHOOSE k \in newlines : \A j \in newlines : j <= k) + 1
            ELSE 0

\* r'(?:\d+\.\s*\*\*)(.*?)(?:\*\*\s*(?:\n|$))' matched at position p: the
\* group and the position after the match, or no match
NumberedMatch(s, p) ==
    LET d == RunEnd(s, p, Digits)
        w == RunEnd(s, d + 1, Whitespace)
        start == w + 2
        line_end == LineEnd(s, start)
        closes == {e \in start..line_end : BoldCloseEnd(s, e) # 0}
    IN IF /\ d > p
          /\ d <= Len(s) /\ s[d] = "."
          /\ w + 1 <= Len(s) /\ s[w] = "*" /\ s[w + 1] = "*"
          /\ closes # {}
       THEN LET e == CHOOSE x \in closes : \A y \in closes : x <= y
            IN [matched |-> TRUE, group |-> SubSeq(s, start, e - 1),
                next |-> BoldCloseEnd(s, e)]
       ELSE [matched |-> FALSE, group |-> <<>>, next |-> p + 1]

\* r'(?:U+2022|\*|-)\s*(.*?)(?:\n|$)' matched at position p
BulletMatch(s, p) ==
    IF p <= Len(s) /\ s[p] \in BulletChars
    THEN LET start == RunEnd(s, p + 1, Whitespace)
             e == LineEnd(s, start)
         IN [matched |-> TRUE, group |-> SubSeq(s, start, e - 1),
             next |-> IF e <= Len(s) THEN e + 1 ELSE e]
    ELSE [matched |-> FALSE, group |-> <<>>, next |-> p + 1]

\* re.findall(pattern, content) with the single group stripped
RECURSIVE NumberedItems(_, _)
NumberedItems(s, p) ==
    IF p > Len(s) THEN <<>>
    ELSE LET m == NumberedMatch(s, p)
         IN IF m.matched THEN <<Str(Strip(m.group))>> \o NumberedItems(s, m.next)
            ELSE NumberedItems(s, p + 1)

RECURSIVE BulletItems(_, _)
BulletItems(s, p) ==
    IF p > Len(s) THEN <<>>
    ELSE LET m == BulletMatch(s, p)
         IN IF m.matched THEN <<Str(Strip(m.group))>> \o BulletItems(s, m.next)
            ELSE BulletItems(s, p + 1)

\* [line.strip() for line in content.split('\n') if line.strip()]
RECURSIVE StrippedLines(_, _)
StrippedLines(s, p) ==
    IF p > Len(s) + 1 THEN <<>>
    ELSE LET e == LineEnd(s, p)
             line == Strip(SubSeq(s, p, e - 1))
         IN (IF line # <<>> THEN <<Str(line)>> ELSE <<>>) \o StrippedLines(s, e + 1)

\* re.sub(r'\*\*|\*|_', '', content)
RemoveMarkers(s) == SelectSeq(s, LAMBDA c : c \notin {"*", "_"})

\* re.sub(r'^FENCE.*?FENCE$', '', text, flags=re.DOTALL), FENCE three backticks
RemoveCodeBlock(s) ==
    IF StartsWith(s, Fence) /\ Len(s) >= 6 /\ EndsWith(s, Fence) THEN <<>>
    ELSE IF StartsWith(s, Fence) /\ Len(s) >= 7 /\ EndsWith(s, Fence \o <<"\n">>)
    THEN <<"\n">>
    ELSE s

\* re.sub(r'\n\n+', '\n\n', text)
RECURSIVE NormalizeNewlines(_, _)
NormalizeNewlines(s, p) ==
    IF p > Len(s) THEN <<>>
    ELSE IF s[p] = "\n"
    THEN LET e == RunEnd(s, p, {"\n"})
         IN (IF e - p >= 2 THEN <<"\n", "\n">> ELSE <<"\n">>) \o NormalizeNewlines(s, e)
    ELSE <<s[p]>> \o NormalizeNewlines(s, p + 1)

\* _extract_text_response, lines 122-159
_extract_text_response(content, output_config) ==
    LET numbered_items == NumberedItems(content, 1)
        bullet_items == BulletItems(content, 1)
        lines == StrippedLines(content, 1)
    IN IF Len(numbered_items) > 0 THEN List(numbered_items)
       ELSE IF Len(bullet_items) > 0 THEN List(bullet_items)
       ELSE IF output_config.outputCardinality = "multiple" /\ Len(lines) > 1
       THEN List(lines)
       ELSE Str(Strip(NormalizeNewlines(RemoveCodeBlock(RemoveMarkers(content)), 1)))

ExtractCategoryLastFound(content, output_config) ==
    IF NoCategories(output_config) THEN Str(content)
    ELSE LET cats == output_config.outputCategories.list
             category_names == [i \in 1..Len(cats) |-> cats[i].name]
             found_categories == SelectSeq(category_names, LAMBDA c : Contains(c, content))
         IN IF Len(found_categories) > 0
            THEN IF output_config.outputCardinality = "single"
                 THEN Str(found_categories[Len(found_categories)])
                 ELSE List([i \in 1..Len(found_categories) |-> Str(found_categories[i])])
            ELSE Str(content)

\* _extract_category_response, lines 161-197
_extract_category_response(content, output_config) ==
    IF NoCategories(output_config) THEN Str(content)
    ELSE LET cats == output_config.outputCategories.list
             category_names == [i \in 1..Len(cats) |-> cats[i].name]
             found_categories == SelectSeq(category_names, LAMBDA c : Contains(c, content))
         IN IF Len(found_categories) > 0
            THEN IF output_config.outputCardinality = "single"
                 THEN Str(found_categories[1])
                 ELSE List([i \in 1..Len(found_categories) |-> Str(found_categories[i])])
            ELSE Str(content)

\* json.loads(content) for the texts the characters of TextPieces can spell:
\* a number between optional whitespace decodes, anything else raises
\* JSONDecodeError
IsJsonNumber(s) ==
    LET int_start == IF s # <<>> /\ s[1] = "-" THEN 2 ELSE 1
        int_end == RunEnd(s, int_start, JsonDigits)
        frac_end == RunEnd(s, int_end + 1, JsonDigits)
    IN /\ int_end > int_start
       /\ (s[int_start] = "0" => int_end = int_start + 1)
       /\ \/ int_end = Len(s) + 1
          \/ /\ s[int_end] = "."
             /\ frac_end > int_end + 1
             /\ frac_end = Len(s) + 1

Number(literal) == [t |-> "number", v |-> literal]

\* the text between the JSON whitespace json.loads skips at both ends
JsonSkipWhitespace(s) ==
    LET first == RunEnd(s, 1, JsonWhitespace)
        after == {k \in first..Len(s) : \A j \in (k + 1)..Len(s) : s[j] \in JsonWhitespace}
    IN IF first > Len(s) THEN <<>>
       ELSE SubSeq(s, first, CHOOSE k \in after : \A j \in after : k <= j)

JsonLoads(content) ==
    IF IsJsonNumber(JsonSkipWhitespace(content)) THEN Number(JsonSkipWhitespace(content))
    ELSE Raised("JSONDecodeError")

\* the return values of parse_response that report a failure
ErrorResult(message, raw_content) ==
    Dict([error |-> Str(<<message>>), raw_content |-> raw_content])

ErrorResultNoRaw(message) == Dict([error |-> Str(<<message>>)])

\* the response objects: a ChatCompletion with its choices, or another object
ChatCompletion(choices) == [kind |-> "ChatCompletion", choices |-> choices]
Choice(content) == [content |-> content, finish_reason |-> "stop"]
NotChatCompletion == [kind |-> "dict", choices |-> <<>>]

\* parse_response, lines 66-120
parse_response(provider_type, response, output_config) ==
    IF provider_type # "openai" THEN None
    ELSE IF response.kind # "ChatCompletion"
    THEN ErrorResultNoRaw("Unexpected response type")
    ELSE IF Len(response.choices) = 0 THEN ErrorResult("Parsing error", None)
    ELSE LET message_content == response.choices[1].content
         IN IF message_content = None \/ message_content.v = <<>> THEN None
            ELSE CASE output_config.outputType = "json" ->
                        IF IsRaised(JsonLoads(message_content.v))
                        THEN ErrorResult("JSON Decode Error", message_content)
                        ELSE JsonLoads(message_content.v)
                   [] output_config.outputType = "text" ->
                        _extract_text_response(message_content.v, output_config)
                   [] output_config.outputType = "category" ->
                        _extract_category_response(message_content.v, output_config)
                   [] OTHER -> message_content

\* category names and lists used with parse_response
CategoryTexts == {<<"a">>, <<"1">>, <<"-", "a">>}

ParseCategoryLists ==
    {[isNone |-> TRUE, list |-> <<>>]} \cup
    {[isNone |-> FALSE, list |-> q] :
        q \in SeqsUpTo({OutputCategory(n) : n \in CategoryTexts}, MaxCategories)}

ParseOutputConfigs ==
    {OutputConfig("sentiment", PromptOk, ty, card, NoCategoryList, FALSE) :
        ty \in OutputType \ {"category"}, card \in OutputCardinality}
    \cup {OutputConfig("sentiment", PromptOk, "category", card, cats, FALSE) :
            card \in OutputCardinality, cats \in ParseCategoryLists}

ParseResponses ==
    {ChatCompletion(<<Choice(Str(t))>>) : t \in Texts}
    \cup {ChatCompletion(<<Choice(None)>>), ChatCompletion(<<>>), NotChatCompletion}

(***************************************************************************)
(* core/prompt_builder.py : PromptBuilder                                  *)
(***************************************************************************)
\* str(value) as jinja2 prints it
JinjaStr(value) == IF value = None THEN Str("None") ELSE value

\* {{ name }}: the value in the context, or the empty text of an undefined
\* variable
Lookup(context, name) ==
    IF name \in DOMAIN context THEN JinjaStr(context[name]) ELSE Str("")

\* template.render(context) for the templates that render
Render(template, context) ==
    CASE template = PromptOk -> <<"Classify ", Lookup(context, "text")>>
      [] template = PromptRegion -> <<"Locate ", Lookup(context, "region")>>

RaisedWith(e, message) == [exc |-> e, message |-> message]

InvalidTemplateMessage == "Invalid Jinja template configured"
NotCompiledMessage == "Jinja template was not compiled successfully during initialization."
RenderingMessage == "Template rendering error"

\* the row passed to build_prompt: row k of the input table as a dict
RowData(k) == [c \in {InputColumns[m] : m \in 1..Len(InputColumns)} |-> InputCell(k, c)]

NewPromptBuilderRaising(output_config, context_columns) ==
    IF TemplateCompiles(output_config.prompt)
    THEN [output_config |-> output_config, context_columns |-> context_columns,
          template |-> Str(output_config.prompt)]
    ELSE RaisedWith("TemplateSyntaxError", output_config.prompt)

\* PromptBuilder.__init__, lines 13-33: the attributes of the object built;
\* template_error is set only when compilation failed
NewPromptBuilder(output_config, context_columns) ==
    IF TemplateCompiles(output_config.prompt)
    THEN [output_config |-> output_config, context_columns |-> context_columns,
          template |-> Str(output_config.prompt)]
    ELSE [output_config |-> output_config, context_columns |-> context_columns,
          template |-> None, template_error |-> "TemplateSyntaxError"]

\* lines 55-70: the render context. The context columns are filled first
\* (lines 57-62) and the three fixed keys are assigned after them (lines
\* 65-70), so a context column of the same name is overwritten.
PromptContext(builder, row_data) ==
    LET cols == {builder.context_columns[m] : m \in 1..Len(builder.context_columns)}
    IN [target_column_name |-> Str(builder.output_config.name),
        output_type |-> Str(builder.output_config.outputType),
        include_reasoning |-> builder.output_config.includeReasoning]
       @@ [c \in cols |-> IF c \in DOMAIN row_data THEN row_data[c] ELSE None]

\* PromptBuilder.build_prompt, lines 35-85
build_prompt(builder, row_data) ==
    IF "template_error" \in DOMAIN builder
    THEN RaisedWith("ValueError", InvalidTemplateMessage)
    ELSE IF builder.template = None
    THEN RaisedWith("ValueError", NotCompiledMessage)
    ELSE IF RenderRaises(builder.template.v)
    THEN RaisedWith("ValueError", RenderingMessage)
    ELSE [rendered_prompt |->
            Render(builder.template.v, PromptContext(builder, row_data))]

PromptOutputConfigs ==
    {OutputConfig(n, p, "text", card, NoCategoryList, incl) :
        n \in OutputNames, p \in {PromptOk, PromptBad, PromptRegion, PromptUndefined},
        card \in OutputCardinality, incl \in BOOLEAN}

(***************************************************************************)
(* State                                                                   *)
(***************************************************************************)
VARIABLES
    sg_config,          \* generate_json_schema: the OutputConfig argument
    sg_schema,          \* generate_json_schema: result per `reasoning` argument
    providers,          \* Enricher.providers
    config,             \* enrich: the AIEnrichmentBlockConfig
    backend,            \* enrich: type of input_df, "pandas" or "polars"
    n_rows,             \* enrich: len(input_df)
    reasoning,          \* enrich: the run-level reasoning argument
    pc,                 \* enrich: "ready", "rows", "done"
    df_len,             \* _enrich_pandas: len(df) after the preview head
    cur_row,            \* _enrich_pandas: row being processed
    cur_out,            \* _enrich_pandas: output being processed, 0 before the row starts
    row_result,         \* _enrich_pandas: row_result
    results_dict_list,  \* _enrich_pandas: results_dict_list
    calls,              \* the _call_provider invocations so far, as (row, output) pairs
    failed,             \* the invocations that returned no result
    requests_sent,      \* number of requests issued to the provider API so far
    result,             \* what enrich returned or raised
    cp_args,            \* one (row, output) pair: provider, output, reasoning, API answers
    cp_result,          \* one (row, output) pair: _call_provider result and row record
    ctor_args,          \* Enricher(providers): the list of provider profiles
    ctor_result,        \* Enricher(providers): the providers dict built, or the error
    ph_args,            \* ProviderHandler.parse_response: provider_type, response, output_config
    ph_result,          \* ProviderHandler.parse_response: the value returned
    pb_args,            \* PromptBuilder(output_config, context_columns): the arguments
    pb_builder,         \* PromptBuilder: the object built (template, template_error)
    pb_prompts,         \* PromptBuilder.build_prompt: result per row
    environ             \* os.environ: the value of OPENAI_API_KEY, "" when unset

sg_vars == <<sg_config, sg_schema>>
cp_vars == <<cp_args, cp_result>>
ctor_vars == <<ctor_args, ctor_result>>
run_vars == <<providers, config, backend, n_rows, reasoning, pc, df_len, cur_row,
              cur_out, row_result, results_dict_list, calls, failed, requests_sent,
              result>>
ph_vars == <<ph_args, ph_result>>
pb_vars == <<pb_args, pb_builder, pb_prompts>>
env_vars == <<environ>>
vars == <<env_vars, sg_vars, cp_vars, ctor_vars, ph_vars, pb_vars, run_vars>>

NotCalled == [notCalled |-> TRUE]
WasCalled(r) == "notCalled" \notin DOMAIN r

NoArgs == [script |-> <<>>]
NoResult == [kind |-> "none"]

SchemaIdle ==
    /\ sg_config = OutputConfig("sentiment", PromptOk, "text", "single", NoCategoryList, FALSE)
    /\ sg_schema = [r \in BOOLEAN |-> NotCalled]

PairIdle ==
    /\ cp_args = NoArgs
    /\ cp_result = NotCalled

CtorIdle ==
    /\ ctor_args = <<>>
    /\ ctor_result = NotCalled

ParseIdle ==
    /\ ph_args = NoArgs
    /\ ph_result = NotCalled

PromptIdle ==
    /\ pb_args = NoArgs
    /\ pb_builder = NotCalled
    /\ pb_prompts = <<>>

\* the values the state of an enrichment run takes while no run is modelled
RunIdle ==
    /\ providers = <<>>
    /\ config = [outputs |-> <<>>]
    /\ backend = "pandas"
    /\ n_rows = 0
    /\ reasoning = FALSE
    /\ pc = "done"
    /\ df_len = 0
    /\ cur_row = 0
    /\ cur_out = 0
    /\ row_result = NoRow
    /\ results_dict_list = <<>>
    /\ calls = <<>>
    /\ failed = {}
    /\ requests_sent = 0
    /\ result = NoResult

(***************************************************************************)
(* Contract generation applied to every output specification               *)
(***************************************************************************)
SchemaInit ==
    /\ environ = ""
    /\ sg_config \in OutputConfigs
    /\ sg_schema = [r \in BOOLEAN |-> NotCalled]
    /\ PairIdle
    /\ CtorIdle
    /\ ParseIdle
    /\ PromptIdle
    /\ RunIdle

GenerateSchema(r) ==
    /\ ~WasCalled(sg_schema[r])
    /\ sg_schema' = [sg_schema EXCEPT ![r] = generate_json_schema(sg_config, r)]
    /\ UNCHANGED <<env_vars, sg_config, cp_vars, ctor_vars, ph_vars, pb_vars, run_vars>>

SchemaNext == \E r \in BOOLEAN : GenerateSchema(r)

SchemaSpec == SchemaInit /\ [][SchemaNext]_vars

(***************************************************************************)
(* One (row, output) pair: the provider call and the storing of its result *)
(***************************************************************************)
PairOutputConfigs ==
    {OutputConfig(n, p, "text", card, NoCategoryList, incl) :
        n \in OutputNames, p \in {PromptOk, PromptBad, PromptUndefined},
        card \in OutputCardinality, incl \in BOOLEAN}

PairInit ==
    /\ environ \in EnvironKeys
    /\ SchemaIdle
    /\ CtorIdle
    /\ ParseIdle
    /\ PromptIdle
    /\ RunIdle
    /\ cp_result = NotCalled
    /\ \E oc \in PairOutputConfigs, r \in BOOLEAN :
          cp_args \in [provider_conf : {ProviderConfig("myOpenAI", "sk-1"),
                                        ProviderConfig("myOpenAI", "")},
                       output_config : {oc},
                       reasoning : {r},
                       script : ProviderScripts(oc, r)]

\* _enrich_pandas, lines 201-276, for one output of one row
ProcessPair ==
    /\ ~WasCalled(cp_result)
    /\ LET oc == cp_args.output_config
           call == _call_provider(cp_args.provider_conf, environ, oc.name, cp_args.script)
       IN cp_result' =
            [prompt |-> _render_prompt(oc.prompt, 1),
             ret |-> call.ret,
             requests |-> call.requests,
             row_result |->
                PandasStoreResult(
                    EmptyRowResult([NoRow EXCEPT !.original_index = 1], <<oc>>,
                                   cp_args.reasoning),
                    oc, cp_args.reasoning, call.ret)]
    /\ UNCHANGED <<env_vars, sg_vars, cp_args, ctor_vars, ph_vars, pb_vars, run_vars>>

PairNext == ProcessPair

PairSpec == PairInit /\ [][PairNext]_vars

(***************************************************************************)
(* Construction of the orchestrator: Enricher(providers)                   *)
(***************************************************************************)
ConstructInit ==
    /\ environ = ""
    /\ SchemaIdle
    /\ PairIdle
    /\ RunIdle
    /\ ParseIdle
    /\ PromptIdle
    /\ ctor_args \in SeqsUpTo(ProviderProfiles, MaxProviders)
    /\ ctor_result = NotCalled

Construct ==
    /\ ~WasCalled(ctor_result)
    /\ ctor_result' = NewEnricher(ctor_args)
    /\ UNCHANGED <<env_vars, sg_vars, cp_vars, ctor_args, ph_vars, pb_vars, run_vars>>

ConstructNext == Construct

ConstructSpec == ConstructInit /\ [][ConstructNext]_vars

(***************************************************************************)
(* Parsing of one provider response: ProviderHandler(client,               *)
(* 'openai').parse_response(response, output_config)                       *)
(***************************************************************************)
ParseInit ==
    /\ environ = ""
    /\ SchemaIdle
    /\ PairIdle
    /\ CtorIdle
    /\ PromptIdle
    /\ RunIdle
    /\ ph_args \in [provider_type : {"openai"},
                    response : ParseResponses,
                    output_config : ParseOutputConfigs]
    /\ ph_result = NotCalled

ParseResponse ==
    /\ ~WasCalled(ph_result)
    /\ ph_result' = parse_response(ph_args.provider_type, ph_args.response,
                                   ph_args.output_config)
    /\ UNCHANGED <<env_vars, sg_vars, cp_vars, ctor_vars, ph_args, pb_vars, run_vars>>

ParseNext == ParseResponse

ParseSpec == ParseInit /\ [][ParseNext]_vars

(***************************************************************************)
(* A prompt builder and its use on the rows of the table:                  *)
(* PromptBuilder(output_config, context_columns).build_prompt(row_data)    *)
(***************************************************************************)
PromptInit ==
    /\ environ = ""
    /\ SchemaIdle
    /\ PairIdle
    /\ CtorIdle
    /\ ParseIdle
    /\ RunIdle
    /\ pb_args \in [output_config : PromptOutputConfigs,
                    context_columns : ContextColumnLists]
    /\ pb_builder = NotCalled
    /\ pb_prompts = [k \in 1..MaxRows |-> NotCalled]

ConstructBuilder ==
    /\ ~WasCalled(pb_builder)
    /\ pb_builder' = NewPromptBuilder(pb_args.output_config, pb_args.context_columns)
    /\ UNCHANGED <<env_vars, sg_vars, cp_vars, ctor_vars, ph_vars, pb_args, pb_prompts, run_vars>>

BuildPrompt(k) ==
    /\ WasCalled(pb_builder)
    /\ ~IsRaised(pb_builder)
    /\ ~WasCalled(pb_prompts[k])
    /\ pb_prompts' = [pb_prompts EXCEPT ![k] = build_prompt(pb_builder, RowData(k))]
    /\ UNCHANGED <<env_vars, sg_vars, cp_vars, ctor_vars, ph_vars, pb_args, pb_builder, run_vars>>

PromptNext ==
    \/ ConstructBuilder
    \/ \E k \in 1..MaxRows : BuildPrompt(k)

PromptSpec == PromptInit /\ [][PromptNext]_vars

(***************************************************************************)
(* An enrichment run: Enricher(providers).enrich(input_df, config,         *)
(* reasoning)                                                              *)
(***************************************************************************)
\* Whole runs are explored with OPENAI_API_KEY unset; both values of the
\* variable are explored per call, in PairSpec.
Init ==
    /\ environ = ""
    /\ SchemaIdle
    /\ PairIdle
    /\ CtorIdle
    /\ ParseIdle
    /\ PromptIdle
    /\ providers \in {EnricherInit(l) : l \in ProviderLists}
    /\ config \in EnrichmentConfigs
    /\ backend \in {"pandas", "polars"}
    /\ n_rows \in 0..MaxRows
    /\ reasoning \in BOOLEAN
    /\ pc = "ready"
    /\ df_len = 0
    /\ cur_row = 0
    /\ cur_out = 0
    /\ row_result = NoRow
    /\ results_dict_list = <<>>
    /\ calls = <<>>
    /\ failed = {}
    /\ requests_sent = 0
    /\ result = NoResult

ProviderMissingAlways(provider_name, registered) == TRUE

\* `provider_name not in self.providers`
ProviderMissing(provider_name, registered) == provider_name \notin DOMAIN registered

\* enrich, lines 108-151, and the entry of the backend it dispatches to:
\* _enrich_pandas lines 160-198, _enrich_polars lines 310-312
EnrichStart ==
    /\ pc = "ready"
    /\ IF ProviderMissing(config.integrationName, providers)
       THEN /\ result' = [kind |-> "raised", exc |-> "ValueError"]
            /\ pc' = "done"
            /\ UNCHANGED <<df_len, cur_row>>
       ELSE IF backend = "pandas"
       THEN /\ df_len' = PandasHead(config.mode, config.previewRowCount, n_rows)
            /\ cur_row' = 1
            /\ pc' = "rows"
            /\ UNCHANGED result
       ELSE \* `for p in self.providers` iterates the keys of the dict, and a
            \* str has no attribute integrationName
            /\ result' = [kind |-> "raised", exc |-> "AttributeError"]
            /\ pc' = "done"
            /\ UNCHANGED <<df_len, cur_row>>
    /\ UNCHANGED <<env_vars, sg_vars, cp_vars, ctor_vars, ph_vars, pb_vars, providers, config, backend, n_rows, reasoning, cur_out,
                   row_result, results_dict_list, calls, failed, requests_sent>>

BeginRowEmptyRecord ==
    /\ pc = "rows"
    /\ cur_row <= df_len
    /\ cur_out = 0
    /\ row_result' = [NoRow EXCEPT !.original_index = cur_row]
    /\ cur_out' = 1
    /\ UNCHANGED <<env_vars, sg_vars, cp_vars, ctor_vars, ph_vars, pb_vars, providers, config, backend, n_rows, reasoning, pc, df_len,
                   cur_row, results_dict_list, calls, failed, requests_sent, result>>

\* _enrich_pandas, lines 200-214: start the record of the next row
BeginRow ==
    /\ pc = "rows"
    /\ cur_row <= df_len
    /\ cur_out = 0
    /\ row_result' = EmptyRowResult([NoRow EXCEPT !.original_index = cur_row],
                                    config.outputs, reasoning)
    /\ cur_out' = 1
    /\ UNCHANGED <<env_vars, sg_vars, cp_vars, ctor_vars, ph_vars, pb_vars, providers, config, backend, n_rows, reasoning, pc, df_len,
                   cur_row, results_dict_list, calls, failed, requests_sent, result>>

\* _enrich_pandas, lines 217-276: one output of the current row
ProcessOutput ==
    /\ pc = "rows"
    /\ cur_out >= 1
    /\ cur_out <= Len(config.outputs)
    /\ LET output_config == config.outputs[cur_out]
           rendered_prompt == _render_prompt(output_config.prompt, cur_row)
           schema == generate_json_schema(output_config, reasoning)
       IN IF IsRaised(schema)
          THEN /\ result' = [kind |-> "raised", exc |-> schema.exc]
               /\ pc' = "done"
               /\ UNCHANGED <<cur_out, row_result, calls, failed, requests_sent>>
          ELSE \E script \in RunScripts(output_config, reasoning) :
                 LET call == _call_provider(providers[config.integrationName], environ,
                                            output_config.name, script)
                 IN /\ calls' = Append(calls, <<cur_row, cur_out>>)
                    /\ failed' = IF call.ret = None
                                 THEN failed \cup {<<cur_row, cur_out>>}
                                 ELSE failed
                    /\ requests_sent' = requests_sent + call.requests
                    /\ row_result' = PandasStoreResult(row_result, output_config,
                                                       reasoning, call.ret)
                    /\ cur_out' = cur_out + 1
                    /\ UNCHANGED <<pc, result>>
    /\ UNCHANGED <<env_vars, sg_vars, cp_vars, ctor_vars, ph_vars, pb_vars, providers, config, backend, n_rows, reasoning, df_len,
                   cur_row, results_dict_list>>

EndRowRepeatingRow ==
    /\ pc = "rows"
    /\ cur_row <= df_len
    /\ cur_out = Len(config.outputs) + 1
    /\ results_dict_list' = Append(results_dict_list, row_result)
    /\ row_result' = NoRow
    /\ cur_row' = cur_row
    /\ cur_out' = 0
    /\ UNCHANGED <<env_vars, sg_vars, cp_vars, ctor_vars, ph_vars, pb_vars, providers, config, backend, n_rows, reasoning, pc, df_len,
                   calls, failed, requests_sent, result>>

\* _enrich_pandas, line 279: the row record is complete
EndRow ==
    /\ pc = "rows"
    /\ cur_row <= df_len
    /\ cur_out = Len(config.outputs) + 1
    /\ results_dict_list' = Append(results_dict_list, row_result)
    /\ row_result' = NoRow
    /\ cur_row' = cur_row + 1
    /\ cur_out' = 0
    /\ UNCHANGED <<env_vars, sg_vars, cp_vars, ctor_vars, ph_vars, pb_vars, providers, config, backend, n_rows, reasoning, pc, df_len,
                   calls, failed, requests_sent, result>>

AssembleExtendingContextColumns ==
    /\ pc = "rows"
    /\ cur_row > df_len
    /\ result' = PandasAssemble(df_len, results_dict_list)
    /\ pc' = "done"
    /\ config' = [config EXCEPT
                    !.contextColumns =
                        @ \o [k \in 1..Len(config.outputs) |-> config.outputs[k].name]]
    /\ UNCHANGED <<env_vars, sg_vars, cp_vars, ctor_vars, ph_vars, pb_vars, providers, backend,
                   n_rows, reasoning, df_len, cur_row, cur_out, row_result,
                   results_dict_list, calls, failed, requests_sent>>

\* _enrich_pandas, lines 281-300: build and return the output table
Assemble ==
    /\ pc = "rows"
    /\ cur_row > df_len
    /\ result' = PandasAssemble(df_len, results_dict_list)
    /\ pc' = "done"
    /\ UNCHANGED <<env_vars, sg_vars, cp_vars, ctor_vars, ph_vars, pb_vars, providers, config, backend, n_rows, reasoning, df_len,
                   cur_row, cur_out, row_result, results_dict_list, calls, failed,
                   requests_sent>>

Next ==
    \/ EnrichStart
    \/ BeginRow
    \/ ProcessOutput
    \/ EndRow
    \/ Assemble

Spec == Init /\ [][Next]_vars

(***************************************************************************)
(* Enrichment runs whose configuration names context columns, with or      *)
(* without one the input table does not have                               *)
(***************************************************************************)
ContextEnrichmentConfigs ==
    {[integrationName |-> "myOpenAI", mode |-> "full",
      previewRowCount |-> DefaultPreviewRowCount,
      outputFormat |-> f, contextColumns |-> ctx,
      outputs |-> <<OutputConfig("sentiment", p, "text", "single", NoCategoryList, TRUE)>>] :
        f \in OutputFormat, ctx \in ContextColumnLists, p \in {PromptOk, PromptRegion}}

ContextInit ==
    /\ environ = ""
    /\ SchemaIdle
    /\ PairIdle
    /\ CtorIdle
    /\ ParseIdle
    /\ PromptIdle
    /\ providers = EnricherInit(<<ProviderConfig("myOpenAI", "sk-1")>>)
    /\ config \in ContextEnrichmentConfigs
    /\ backend \in {"pandas", "polars"}
    /\ n_rows \in 0..MaxRows
    /\ reasoning \in BOOLEAN
    /\ pc = "ready"
    /\ df_len = 0
    /\ cur_row = 0
    /\ cur_out = 0
    /\ row_result = NoRow
    /\ results_dict_list = <<>>
    /\ calls = <<>>
    /\ failed = {}
    /\ requests_sent = 0
    /\ result = NoResult

ContextSpec == ContextInit /\ [][Next]_vars

IsSchema(r) == WasCalled(r) /\ ~IsRaised(r)

\* the schema of the single output field inside a generated contract
FieldSchema(s) == s.properties[sg_config.name]

IsWrapper(p) == "properties" \in DOMAIN p

\* the value shape below the explanation wrapper, if any
ValueShape(s) ==
    IF IsWrapper(FieldSchema(s)) THEN FieldSchema(s).properties.value ELSE FieldSchema(s)

\* the element shape below the array wrapper, if any
ElementShape(s) ==
    IF ValueShape(s).type = "array" THEN ValueShape(s).items ELSE ValueShape(s)

\* C1: for a category specification with a non-empty category list, the enum
\* of the generated contract is the sequence of declared category names, in
\* declared order, for every cardinality and explanation setting.
C1_EnumEqualsCategoryNames ==
    \A r \in BOOLEAN :
        (sg_config.outputType = "category" /\ ~NoCategories(sg_config)
            /\ WasCalled(sg_schema[r])) =>
        /\ IsSchema(sg_schema[r])
        /\ "enum" \in DOMAIN ElementShape(sg_schema[r])
        /\ Len(ElementShape(sg_schema[r]).enum) = Len(sg_config.outputCategories.list)
        /\ \A i \in 1..Len(sg_config.outputCategories.list) :
              ElementShape(sg_schema[r]).enum[i] = sg_config.outputCategories.list[i].name

C1_Witness ==
    /\ sg_config.outputType = "category"
    /\ sg_config.outputCardinality = "multiple"
    /\ sg_config.includeReasoning
    /\ ~sg_config.outputCategories.isNone
    /\ Len(sg_config.outputCategories.list) = 2
    /\ sg_config.outputCategories.list[1].name = "Negative"
    /\ sg_config.outputCategories.list[2].name = "Positive"
    /\ IsSchema(sg_schema[TRUE])
    /\ ElementShape(sg_schema[TRUE]).enum = <<"Negative", "Positive">>

\* the explanation-enabled contract with the {value, reasoning} wrapper of the
\* field replaced by the schema under its `value` member
Unwrapped(s) ==
    [s EXCEPT !.properties =
        (sg_config.name :> s.properties[sg_config.name].properties.value)]

\* C2: for a specification whose explanation flag is true, the contract
\* generated with the run-level override disabled equals the contract
\* generated with it enabled after removing the value/reasoning wrapper.
C2_DisabledEqualsUnwrappedEnabled ==
    (sg_config.includeReasoning
        /\ IsSchema(sg_schema[TRUE]) /\ IsSchema(sg_schema[FALSE])) =>
    /\ IsWrapper(FieldSchema(sg_schema[TRUE]))
    /\ sg_schema[FALSE] = Unwrapped(sg_schema[TRUE])

C2_Witness ==
    /\ sg_config.includeReasoning
    /\ sg_config.outputCardinality = "multiple"
    /\ IsSchema(sg_schema[TRUE]) /\ IsSchema(sg_schema[FALSE])
    /\ sg_schema[TRUE] # sg_schema[FALSE]
    /\ FieldSchema(sg_schema[FALSE]).type = "array"

BaseTypeName ==
    IF sg_config.outputType = "number" THEN "number" ELSE "string"

\* the bare value shape: the base type, inside an array for multiple cardinality
IsBareValueShape(p) ==
    /\ ~IsWrapper(p)
    /\ IF sg_config.outputCardinality = "multiple"
       THEN p.type = "array" /\ p.items.type = BaseTypeName /\ ~IsWrapper(p.items)
       ELSE p.type = BaseTypeName

\* C3: the field is an object with exactly the required members value (the
\* unwrapped shape) and reasoning (string) iff includeReasoning and the
\* run-level reasoning argument are both true; otherwise the field is the
\* bare value shape without a reasoning member.
C3_WrapperIffBothFlags ==
    \A r \in BOOLEAN :
        IsSchema(sg_schema[r]) =>
        LET p == FieldSchema(sg_schema[r])
        IN IF sg_config.includeReasoning /\ r
           THEN /\ p.type = "object"
                /\ DOMAIN p.properties = {"value", "reasoning"}
                /\ {p.required[i] : i \in 1..Len(p.required)} = {"value", "reasoning"}
                /\ Len(p.required) = 2
                /\ p.properties.reasoning.type = "string"
                /\ IsBareValueShape(p.properties.value)
           ELSE IsBareValueShape(p)

C3_Witness ==
    /\ sg_config.includeReasoning
    /\ sg_config.outputCardinality = "multiple"
    /\ IsSchema(sg_schema[TRUE]) /\ IsSchema(sg_schema[FALSE])
    /\ IsWrapper(FieldSchema(sg_schema[TRUE]))
    /\ FieldSchema(sg_schema[TRUE]).properties.value.type = "array"
    /\ ~IsWrapper(FieldSchema(sg_schema[FALSE]))

\* C4: every returned contract is an object schema with exactly one top-level
\* property, named after the specification and required, and forbids
\* undeclared fields at the top level and inside the explanation wrapper.
C4_SingleRequiredClosedField ==
    \A r \in BOOLEAN :
        IsSchema(sg_schema[r]) =>
        /\ sg_schema[r].type = "object"
        /\ DOMAIN sg_schema[r].properties = {sg_config.name}
        /\ sg_schema[r].required = <<sg_config.name>>
        /\ sg_schema[r].additionalProperties = FALSE
        /\ IsWrapper(FieldSchema(sg_schema[r])) =>
              FieldSchema(sg_schema[r]).additionalProperties = FALSE

C4_Witness ==
    /\ sg_config.name = "value"
    /\ sg_config.includeReasoning
    /\ IsSchema(sg_schema[TRUE])
    /\ IsWrapper(FieldSchema(sg_schema[TRUE]))
    /\ DOMAIN sg_schema[TRUE].properties = {"value"}

(***************************************************************************)
(* Properties of an enrichment run                                         *)
(***************************************************************************)
InvalidOutput(oc) == oc.outputType = "category" /\ NoCategories(oc)
HasInvalidOutput == \E k \in 1..Len(config.outputs) : InvalidOutput(config.outputs[k])

Finished == pc = "done"
ReturnedTable == pc = "done" /\ result.kind = "table"

\* the record of a row that has been started: the one in progress or the
\* one appended to results_dict_list
RecordOf(row) ==
    IF row_result.original_index = row THEN row_result ELSE results_dict_list[row]

ExplanationInEffect(oc) == oc.includeReasoning /\ reasoning

\* the enrichment fields in specification order: value, then explanation
RECURSIVE EnrichmentFields(_)
EnrichmentFields(outputs) ==
    IF outputs = <<>> THEN <<>>
    ELSE (IF ExplanationInEffect(Head(outputs))
          THEN <<Head(outputs).name, ReasoningName(Head(outputs).name)>>
          ELSE <<Head(outputs).name>>) \o EnrichmentFields(Tail(outputs))

\* C5: when some output is of type category without categories, enrich
\* raises before any provider call is attempted for any row or output, and
\* returns no table.
C5_RaisesBeforeAnyProviderCall ==
    HasInvalidOutput =>
        /\ requests_sent = 0
        /\ Finished => result.kind = "raised"

\* C6: with newColumns the returned table has as many rows as the input, in
\* the original order, each input row once; in preview mode the rows beyond
\* the first N are present with all enrichment fields unset.
C6_WidenKeepsEveryInputRow ==
    (ReturnedTable /\ config.outputFormat = "newColumns") =>
        /\ Len(result.rows) = n_rows
        /\ \A k \in 1..Len(result.rows) :
              /\ result.rows[k].index = k
              /\ (config.mode = "preview" /\ k > config.previewRowCount) =>
                    \A m \in 1..Len(EnrichmentFields(config.outputs)) :
                        result.rows[k].cells[EnrichmentFields(config.outputs)[m]] = NA

\* length of the resolved value collection of one output of one row: a list
\* counts its elements, anything else (single value, failure) counts 1, and
\* so does an empty list
CollectionLength(x) == IF IsList(x) /\ Len(x.v) > 0 THEN Len(x.v) ELSE 1

RECURSIVE CombinationsOfRow(_, _)
CombinationsOfRow(rec, outputs) ==
    IF outputs = <<>> THEN 1
    ELSE CollectionLength(rec.cells[Head(outputs).name])
         * CombinationsOfRow(rec, Tail(outputs))

RECURSIVE CombinationsOfRows(_, _)
CombinationsOfRows(records, outputs) ==
    IF records = <<>> THEN 0
    ELSE CombinationsOfRow(Head(records), outputs)
         + CombinationsOfRows(Tail(records), outputs)

\* C7: with newRows the number of output rows is the sum over processed rows
\* of the product over outputs of max(1, length of the value collection).
C7_ExpandRowCountIsSumOfProducts ==
    (ReturnedTable /\ config.outputFormat = "newRows") =>
        Len(result.rows) = CombinationsOfRows(results_dict_list, config.outputs)

IsTransient(a) == a.kind = "error" /\ a.error \in TransientErrors
IsSuccess(a) == a.kind = "response" /\ a.content.text = "json"

\* C8: a (row, output) pair is attempted at most three times; two transient
\* failures followed by a success record the third attempt's result with no
\* error marker; three transient failures in a row record the failure marker
\* after the third attempt, whatever a fourth attempt would have answered.
C8_RetriesTransientFailures ==
    (WasCalled(cp_result) /\ ApiKey(cp_args.provider_conf, environ) # "") =>
        LET s == cp_args.script
            field == cp_args.output_config.name
            recorded == cp_result.row_result.cells[field]
        IN /\ cp_result.requests <= 3
           /\ (Len(s) >= 3 /\ IsTransient(s[1]) /\ IsTransient(s[2]) /\ IsSuccess(s[3])) =>
                 /\ cp_result.requests = 3
                 /\ cp_result.ret = Dict(field :> MainData(s[3].content.json))
                 /\ recorded # NA
           /\ (Len(s) >= 3 /\ \A k \in 1..3 : IsTransient(s[k])) =>
                 /\ cp_result.requests = 3
                 /\ cp_result.ret = None
                 /\ recorded = NA

\* C9: a failed provider call leaves that output recorded as failed for that
\* row, the remaining outputs of the row and the later rows are still
\* attempted, and enrich still returns a table holding the failure markers:
\* every (row, output) pair up to the current position has been passed to the
\* provider, and the only thing that ends such a run without a table is the
\* configuration error of an output specification without categories.
C9_FailureDoesNotAbort ==
    (failed # {}) =>
        /\ \A f \in failed :
              LET oc == config.outputs[f[2]]
              IN IF ReturnedTable
                 THEN /\ result.rows[f[1]].cells[oc.name] = NA
                      /\ ExplanationInEffect(oc) =>
                            result.rows[f[1]].cells[ReasoningName(oc.name)] = NA
                 ELSE /\ RecordOf(f[1]).cells[oc.name] = NA
                      /\ ExplanationInEffect(oc) =>
                            RecordOf(f[1]).cells[ReasoningName(oc.name)] = NA
        /\ pc = "rows" =>
              Len(calls) = Len(results_dict_list) * Len(config.outputs)
                           + (IF cur_out = 0 THEN 0 ELSE cur_out - 1)
        /\ (Finished /\ ~HasInvalidOutput) =>
              /\ result.kind = "table"
              /\ \A r \in 1..df_len : \A o \in 1..Len(config.outputs) :
                    InSeq(calls, <<r, o>>)
        /\ (Finished /\ result.kind = "raised") =>
              (HasInvalidOutput /\ result.exc = "ValueError")

C9_Witness ==
    /\ ReturnedTable
    /\ <<1, 1>> \in failed
    /\ <<2, 2>> \notin failed
    /\ ApiKey(providers[config.integrationName], environ) # ""
    /\ calls = <<(<<1, 1>>), (<<1, 2>>), (<<2, 1>>), (<<2, 2>>)>>
    /\ result.rows[1].cells[config.outputs[1].name] = NA
    /\ result.rows[2].cells[config.outputs[2].name] # NA

\* the expanded table: only context columns plus enrichment fields, one row
\* per combination of output values
IsExpandedTable ==
    /\ result.columns = config.contextColumns \o EnrichmentFields(config.outputs)
    /\ Len(result.rows) = CombinationsOfRows(results_dict_list, config.outputs)

\* the widened table: the input columns plus the enrichment fields
IsWidenedTable ==
    result.columns = InputColumns \o EnrichmentFields(config.outputs)

\* C10: the assembly policy is the one selected by outputFormat: newColumns
\* yields the widened table and newRows the expanded table.
C10_FormatSelectsAssembly ==
    ReturnedTable =>
        IF config.outputFormat = "newColumns" THEN IsWidenedTable ELSE IsExpandedTable

\* a row has started once a provider request was sent for it, and has
\* completed once its record is in results_dict_list
RowStarted(row) ==
    /\ ApiKey(providers[config.integrationName], environ) # ""
    /\ \E o \in 1..Len(config.outputs) : InSeq(calls, <<row, o>>)
RowCompleted(row) == row <= Len(results_dict_list)

\* the batch of a row when the rows are cut into batches of b rows
BatchOf(row, b) == ((row - 1) \div b) + 1

\* C11: for every batch size b, with the rows cut into consecutive batches of
\* b rows: the rows of one batch are in flight together (none of them has
\* completed while another has not started), no row of a later batch has
\* started before every row of the earlier batches has completed, and at most
\* b rows are in flight at once.
C11_BatchesRunConcurrently ==
    ((pc = "rows" \/ ReturnedTable) /\ ApiKey(providers[config.integrationName], environ) # ""
        /\ Len(config.outputs) >= 1) =>
        \A b \in 1..MaxRows :
            /\ \A r1, r2 \in 1..df_len :
                  /\ (BatchOf(r1, b) = BatchOf(r2, b) /\ RowCompleted(r1)) => RowStarted(r2)
                  /\ (BatchOf(r1, b) < BatchOf(r2, b) /\ RowStarted(r2)) => RowCompleted(r1)
            /\ Cardinality({r \in 1..df_len : RowStarted(r) /\ ~RowCompleted(r)}) <= b

\* the rows a run is to process: the first previewRowCount rows in preview
\* mode (all of them when the table is shorter), every row in full mode
RowsToProcess ==
    IF config.mode = "preview"
    THEN (IF n_rows < config.previewRowCount THEN n_rows ELSE config.previewRowCount)
    ELSE n_rows

\* C12: no record is started, no prompt is built and no provider call is made
\* for a row beyond the first N rows in preview mode, and a run that returns
\* has invoked the provider for every output of every row it is to process
\* (the first N rows in preview mode, every row in full mode).
C12_PreviewLimitsProcessedRows ==
    /\ \A i \in 1..Len(calls) : calls[i][1] <= RowsToProcess
    /\ row_result.original_index <= RowsToProcess
    /\ \A k \in 1..Len(results_dict_list) :
          results_dict_list[k].original_index <= RowsToProcess
    /\ ReturnedTable =>
          \A r \in 1..RowsToProcess : \A o \in 1..Len(config.outputs) :
              InSeq(calls, <<r, o>>)

C12_Witness ==
    /\ ReturnedTable
    /\ config.mode = "preview"
    /\ n_rows > config.previewRowCount
    /\ ApiKey(providers[config.integrationName], environ) # ""
    /\ Len(config.outputs) = 2
    /\ calls = <<(<<1, 1>>), (<<1, 2>>)>>
    /\ requests_sent = 2

\* enrich raised at its provider check (lines 126-130): a ValueError before
\* either backend was entered
RaisedAtProviderCheck ==
    /\ Finished
    /\ result.kind = "raised"
    /\ result.exc = "ValueError"
    /\ cur_row = 0

\* C13: when the provider identifier of the configuration is not a key of the
\* profile map, enrich raises the configuration error with no row started and
\* no provider call or request made; when it is a key, the membership test never raises.
C13_UnknownProviderFailsFirst ==
    IF config.integrationName \notin DOMAIN providers
    THEN /\ calls = <<>>
         /\ requests_sent = 0
         /\ row_result = NoRow
         /\ results_dict_list = <<>>
         /\ Finished => RaisedAtProviderCheck
    ELSE ~RaisedAtProviderCheck

C13_Witness ==
    /\ config.integrationName \notin DOMAIN providers
    /\ DOMAIN providers = {"other"}
    /\ n_rows = 2
    /\ Len(config.outputs) = 2
    /\ RaisedAtProviderCheck

\* position of the last profile of the list with the given identifier
LastWithName(provider_list, name) ==
    CHOOSE i \in 1..Len(provider_list) :
        /\ provider_list[i].integrationName = name
        /\ \A j \in (i + 1)..Len(provider_list) : provider_list[j].integrationName # name

\* C14: constructing the orchestrator with a non-empty profile list never
\* fails, whatever identifiers repeat; the profile map then has exactly the
\* identifiers of the list as keys, each mapped to the last profile of the
\* list with that identifier.
C14_LastRegisteredWins ==
    (WasCalled(ctor_result) /\ Len(ctor_args) >= 1) =>
        /\ ~IsRaised(ctor_result)
        /\ DOMAIN ctor_result.providers =
              {ctor_args[i].integrationName : i \in 1..Len(ctor_args)}
        /\ \A name \in DOMAIN ctor_result.providers :
              ctor_result.providers[name] = ctor_args[LastWithName(ctor_args, name)]

C14_Witness ==
    /\ WasCalled(ctor_result)
    /\ ctor_args = <<ProviderConfig("myOpenAI", "sk-1"), ProviderConfig("other", "sk-1"),
                     ProviderConfig("myOpenAI", "sk-2")>>
    /\ ~IsRaised(ctor_result)
    /\ ctor_result.providers["myOpenAI"].apiKey = "sk-2"
    /\ DOMAIN ctor_result.providers = {"myOpenAI", "other"}

\* C15: the columns of a widened result are the input columns in their
\* order, then for each output in specification order its value column,
\* immediately followed by its reasoning column when explanation is in effect
\* for it; failed and successful provider calls give the same columns.
C15_WidenedColumnOrder ==
    (ReturnedTable /\ config.outputFormat = "newColumns") =>
        /\ Len(result.columns) = Len(InputColumns) + Len(EnrichmentFields(config.outputs))
        /\ \A k \in 1..Len(InputColumns) : result.columns[k] = InputColumns[k]
        /\ \A k \in 1..Len(EnrichmentFields(config.outputs)) :
              result.columns[Len(InputColumns) + k] = EnrichmentFields(config.outputs)[k]

C15_Witness ==
    /\ ReturnedTable
    /\ config.outputFormat = "newColumns"
    /\ reasoning
    /\ Len(config.outputs) = 2
    /\ config.outputs[1].includeReasoning
    /\ ~config.outputs[2].includeReasoning
    /\ ApiKey(providers[config.integrationName], environ) # ""
    /\ <<1, 1>> \in failed
    /\ <<2, 1>> \notin failed
    /\ <<1, 2>> \notin failed
    /\ result.columns = <<"id", "text", "sentiment", "sentiment_reasoning", "topics">>

\* C16: on the pandas backend, a run over a table with zero rows, with a
\* registered provider and one or more valid outputs, returns under either
\* output format a table with zero rows whose columns are the input (context)
\* columns followed by the enrichment fields, and does not raise.
C16_ZeroRowsGiveEmptyTable ==
    (Finished /\ n_rows = 0 /\ backend = "pandas" /\ ~HasInvalidOutput
        /\ Len(config.outputs) >= 1 /\ config.integrationName \in DOMAIN providers) =>
        /\ result.kind = "table"
        /\ Len(result.rows) = 0
        /\ result.columns \in {InputColumns \o EnrichmentFields(config.outputs),
                                config.contextColumns \o EnrichmentFields(config.outputs)}

IsRequestError(a) == a.kind = "error" /\ a.error \in RequestErrors
IsUnparseable(a) == a.kind = "response" /\ a.content.text # "json"

\* C17: a provider call whose request is rejected as malformed, or whose
\* response cannot be parsed, sends exactly one request for its (row, output)
\* pair, whatever a further request would have answered, and the output (and
\* its reasoning field, when explanation is in effect) is recorded as failed.
C17_NoRetryOnRequestOrParseError ==
    (WasCalled(cp_result) /\ ApiKey(cp_args.provider_conf, environ) # ""
        /\ (IsRequestError(cp_args.script[1]) \/ IsUnparseable(cp_args.script[1]))) =>
        LET oc == cp_args.output_config
        IN /\ cp_result.requests = 1
           /\ cp_result.ret = None
           /\ cp_result.row_result.cells[oc.name] = NA
           /\ (oc.includeReasoning /\ cp_args.reasoning) =>
                 cp_result.row_result.cells[ReasoningName(oc.name)] = NA

C17_Witness ==
    /\ WasCalled(cp_result)
    /\ ApiKey(cp_args.provider_conf, environ) # ""
    /\ Len(cp_args.script) = 2
    /\ IsRequestError(cp_args.script[1])
    /\ IsSuccess(cp_args.script[2])
    /\ cp_result.requests = 1
    /\ cp_result.row_result.cells[cp_args.output_config.name] = NA

\* an object carrying a `value` member
HasValueMember(x) == IsDict(x) /\ "value" \in DOMAIN x.v

\* the call of one (row, output) pair was made with explanation in effect
\* and its result is not an object carrying a `value` member
MalformedExplanation ==
    /\ WasCalled(cp_result)
    /\ cp_args.output_config.includeReasoning
    /\ cp_args.reasoning
    /\ \/ cp_result.ret = None
       \/ ~HasValueMember(cp_result.ret.v[cp_args.output_config.name])

\* C18: when explanation is in effect for an output and the provider result
\* is not an object with a `value` member, the row record holds pd.NA in the
\* value field and in the reasoning field of that output.
C18_MalformedExplanationStoresAbsence ==
    MalformedExplanation =>
        /\ cp_result.row_result.cells[cp_args.output_config.name] = NA
        /\ cp_result.row_result.cells[ReasoningName(cp_args.output_config.name)] = NA

C18_Witness ==
    /\ MalformedExplanation
    /\ cp_result.ret = Dict(cp_args.output_config.name :> Str("A"))
    /\ cp_result.row_result.cells[cp_args.output_config.name] = NA

\* the rows of the returned table made from input row r
RowsFrom(r) == {k \in 1..Len(result.rows) : result.rows[k].index = r}

\* C19: in a run with outputFormat newRows that returns a table, the table is
\* the expanded one and, when an output of cardinality multiple got a value
\* that is neither a list nor null, the input row yields output rows each
\* holding that value itself, exactly one when it is the only output.
C19_ScalarForMultipleIsOneElement ==
    (ReturnedTable /\ config.outputFormat = "newRows") =>
        \A r \in 1..Len(results_dict_list) : \A o \in 1..Len(config.outputs) :
            LET oc == config.outputs[o]
                v == results_dict_list[r].cells[oc.name]
            IN (oc.outputCardinality = "multiple"
                    /\ v # NA /\ v # None /\ ~IsList(v)) =>
                /\ result.columns = config.contextColumns \o EnrichmentFields(config.outputs)
                /\ RowsFrom(r) # {}
                /\ \A k \in RowsFrom(r) : result.rows[k].cells[oc.name] = v
                /\ Len(config.outputs) = 1 => Cardinality(RowsFrom(r)) = 1

\* C20: when rendering the prompt of an output fails, the output is recorded
\* as failed for the row: no provider answer to the unrendered template is
\* taken as its result, and its cell stays an error value.
C20_RenderFailureRecordsError ==
    (WasCalled(cp_result) /\ ~cp_result.prompt.rendered) =>
        /\ cp_result.ret = None
        /\ cp_result.row_result.cells[cp_args.output_config.name] = NA

\* a context column of the configuration that the input table does not have
HasAbsentContextColumn(context_columns) ==
    \E m \in 1..Len(context_columns) : ~InSeq(InputColumns, context_columns[m])

\* C21: a context column absent from the table does not abort the run: a
\* run on a table with rows, with a registered provider and valid output
\* specifications, ends with a table.
C21_AbsentContextColumnIsNotFatal ==
    (/\ Finished
     /\ n_rows >= 1
     /\ ~HasInvalidOutput
     /\ config.integrationName \in DOMAIN providers
     /\ HasAbsentContextColumn(config.contextColumns)) =>
        result.kind = "table"

\* C22: no step of a run changes the configuration passed to it or the
\* provider profiles of the orchestrator.
C22_RunLeavesConfigAndProfilesAlone ==
    [][config' = config /\ providers' = providers]_vars

C22_Witness ==
    /\ ReturnedTable
    /\ n_rows >= 1
    /\ HasAbsentContextColumn(config.contextColumns)
    /\ config \in ContextEnrichmentConfigs
    /\ providers = EnricherInit(<<ProviderConfig("myOpenAI", "sk-1")>>)

\* parse_response was applied to a ChatCompletion whose first choice has
\* content
ParsedContent ==
    /\ WasCalled(ph_result)
    /\ ph_args.response.kind = "ChatCompletion"
    /\ Len(ph_args.response.choices) >= 1
    /\ ph_args.response.choices[1].content # None
    /\ ph_args.response.choices[1].content.v # <<>>

ResponseText == ph_args.response.choices[1].content.v

DeclaredNames ==
    [i \in 1..Len(ph_args.output_config.outputCategories.list) |->
        ph_args.output_config.outputCategories.list[i].name]

\* the positions of the declared categories whose name occurs in the text
ContainedAt == {i \in DOMAIN DeclaredNames : Contains(DeclaredNames[i], ResponseText)}

\* the k-th smallest element of ContainedAt
NthContained(k) ==
    CHOOSE i \in ContainedAt : Cardinality({j \in ContainedAt : j < i}) = k - 1

IsCategoryMember(x) ==
    x.t = "str" /\ \E i \in DOMAIN DeclaredNames : x.v = DeclaredNames[i]

IsMemberOrMembers(r) ==
    CASE r.t = "str" -> IsCategoryMember(r)
      [] r.t = "list" -> \A k \in 1..Len(r.v) : IsCategoryMember(r.v[k])
      [] OTHER -> FALSE

CategoryCase ==
    /\ ParsedContent
    /\ ph_args.output_config.outputType = "category"
    /\ ~NoCategories(ph_args.output_config)

\* C23: for an output of type category with a non-empty category list, the
\* value extracted from a response text is the first declared category whose
\* name occurs in the text (cardinality single), the list of all declared
\* categories whose name occurs in it, in declared order (cardinality
\* multiple), and the text itself when no name occurs in it; so it is a
\* category or a list of categories exactly when some name occurs.
C23_CategoryExtraction ==
    CategoryCase =>
        /\ (ContainedAt = {} => ph_result = Str(ResponseText))
        /\ (ContainedAt # {} /\ ph_args.output_config.outputCardinality = "single") =>
                ph_result = Str(DeclaredNames[NthContained(1)])
        /\ (ContainedAt # {} /\ ph_args.output_config.outputCardinality = "multiple") =>
                ph_result = List([k \in 1..Cardinality(ContainedAt) |->
                                    Str(DeclaredNames[NthContained(k)])])
        /\ (ContainedAt # {} <=> IsMemberOrMembers(ph_result))

C23_Witness ==
    /\ CategoryCase
    /\ ph_args.output_config.outputCardinality = "single"
    /\ Cardinality(ContainedAt) = 2
    /\ DeclaredNames[1] # DeclaredNames[2]
    /\ ph_result = Str(DeclaredNames[1])

\* the content of the response _call_provider received does not decode
IsUndecodable(a) == a.kind = "response" /\ a.content.text = "malformed"

\* the response _call_provider received carries no textual content
HasNoContent(a) == a.kind = "response" /\ a.content.text = "empty"

\* C24: parsing a response without content, or content that fails to decode,
\* yields an error outcome and never a usable value; for the decode failure
\* the recorded outcome (what the parser returns and what the row holds for
\* the output) preserves the raw content, so it is not the empty outcome.
C24_UnparseableResponseKeepsRawContent ==
    (WasCalled(cp_result) /\ ApiKey(cp_args.provider_conf, environ) # "") =>
        LET a == cp_args.script[1]
            field == cp_args.output_config.name
            recorded == cp_result.row_result.cells[field]
        IN /\ (IsUndecodable(a) \/ HasNoContent(a)) =>
                 ~(IsDict(cp_result.ret) /\ field \in DOMAIN cp_result.ret.v)
           /\ IsUndecodable(a) => (cp_result.ret # None \/ recorded # NA)

\* build_prompt raised because the template of the builder did not compile
FailedForTemplate(r) ==
    IsRaised(r) /\ r.message \in {InvalidTemplateMessage, NotCompiledMessage}

\* C25: constructing a builder whose template does not compile does not
\* raise, and every build_prompt call on it raises and returns no prompt; a
\* builder whose template compiled never fails for that reason.
C25_CompileFailureSurfacesAtBuild ==
    WasCalled(pb_builder) =>
        /\ ~IsRaised(pb_builder)
        /\ \A k \in DOMAIN pb_prompts :
              WasCalled(pb_prompts[k]) =>
                IF TemplateCompiles(pb_args.output_config.prompt)
                THEN ~FailedForTemplate(pb_prompts[k])
                ELSE /\ IsRaised(pb_prompts[k])
                     /\ pb_prompts[k].exc = "ValueError"

C25_Witness ==
    /\ WasCalled(pb_builder)
    /\ ~TemplateCompiles(pb_args.output_config.prompt)
    /\ \A k \in DOMAIN pb_prompts :
          WasCalled(pb_prompts[k]) /\ FailedForTemplate(pb_prompts[k])

\* the keys of a row record besides original_index: every output name, and
\* the reasoning name of the outputs whose explanation is in effect
ExpectedKeys ==
    {config.outputs[i].name : i \in 1..Len(config.outputs)}
    \cup {ReasoningName(config.outputs[i].name) :
            i \in {k \in 1..Len(config.outputs) :
                      config.outputs[k].includeReasoning /\ reasoning}}

\* the keys of row record rr, each held once, are the set expected
HasKeys(rr, expected) ==
    /\ DOMAIN rr.cells = expected
    /\ Len(rr.keys) = Cardinality(expected)
    /\ \A m \in 1..Len(rr.keys) : rr.keys[m] \in expected

\* C26: on the widen path every row record, while its outputs are processed
\* and once it is complete, has exactly the expected keys, whatever the
\* provider returned.
C26_RowRecordKeysAreFixed ==
    backend = "pandas" =>
        LET expected == ExpectedKeys
        IN /\ \A i \in 1..Len(results_dict_list) : HasKeys(results_dict_list[i], expected)
           /\ (pc = "rows" /\ cur_out >= 1) => HasKeys(row_result, expected)

C26_Witness ==
    /\ backend = "pandas"
    /\ reasoning
    /\ Len(results_dict_list) = 2
    /\ Len(config.outputs) = 2
    /\ config.outputs[1].includeReasoning # config.outputs[2].includeReasoning
    /\ <<1, 1>> \in failed
    /\ <<2, 1>> \notin failed
    /\ <<1, 2>> \notin failed
    /\ <<2, 2>> \in failed

\* (row, output) pair a comes before pair b in row-major order
RowMajorBefore(a, b) == a[1] < b[1] \/ (a[1] = b[1] /\ a[2] < b[2])

\* C27: the provider invocations of a run are in row-major order, so no
\* (row, output) pair is invoked twice; an invocation for a row happens only
\* when the records of all earlier rows are complete, and an invocation for
\* an output only before the later outputs of its row are reached.
C27_InvocationsAreRowMajor ==
    /\ \A k \in 1..(Len(calls) - 1) : RowMajorBefore(calls[k], calls[k + 1])
    /\ \A k \in 1..Len(calls) :
          /\ calls[k][1] <= Len(results_dict_list) + 1
          /\ (pc = "rows" /\ calls[k][1] = Len(results_dict_list) + 1) =>
                (cur_row = calls[k][1] /\ calls[k][2] < cur_out)

C27_Witness ==
    /\ backend = "pandas"
    /\ pc = "done"
    /\ calls = << <<1, 1>>, <<1, 2>>, <<2, 1>>, <<2, 2>> >>
    /\ Len(results_dict_list) = 2

\* the single answer of the API was a response that satisfies the contract
\* of the output: the payload under the output name
ConformingAnswer ==
    /\ WasCalled(cp_result)
    /\ ApiKey(cp_args.provider_conf, environ) # ""
    /\ cp_args.script[1].kind = "response"
    /\ cp_args.script[1].content.text = "json"
    /\ \E p \in ConformingPayloads(cp_args.output_config, cp_args.reasoning) :
          cp_args.script[1].content.json = Dict(cp_args.output_config.name :> p)

\* C28: for a response that satisfies the contract, _call_provider returns
\* the payload under the output name, whatever the output is named.
C28_ConformingPayloadIsReturned ==
    ConformingAnswer => cp_result.ret = cp_args.script[1].content.json

\* C29: when the provider named by the configuration is registered, a run on
\* either backend gets past the provider lookup and enters row processing;
\* it does not end with an error raised by the lookup.
C29_BackendsAgreeOnProviderLookup ==
    (/\ pc = "done"
     /\ ~ProviderMissing(config.integrationName, providers)) =>
        /\ cur_row >= 1
        /\ ~(result.kind = "raised" /\ result.exc = "AttributeError")

\* C30: for an output of type text and cardinality single, the value
\* extracted from a response text is one string, never a list.
C30_SingleTextIsOneString ==
    (/\ ParsedContent
     /\ ph_args.output_config.outputType = "text"
     /\ ph_args.output_config.outputCardinality = "single") =>
        ph_result.t = "str"
====
